---- MODULE Spec2Model ----
(***************************************************************************)
(* Secure messaging core of payswarm.js: api.sign and api.verify, in the   *)
(* two revisions the repository holds:                                     *)
(*   rev = "lib"  src/lib/payswarm-client.js  (hook based, 2013)           *)
(*   rev = "p4"   src/unnamed/part_004        (option based, 2014)         *)
(* Strings are sequences of string tokens, so that the signing input is a  *)
(* real concatenation. An RSA signature value is the pair (private key,    *)
(* signed bytes); it verifies under the matching public key and the same   *)
(* bytes only.                                                             *)
(***************************************************************************)
EXTENDS Integers, Sequences, FiniteSets, TLC

VARIABLES
  rev,       \* which revision of the client library is loaded
  doc,       \* the caller's document (the object handed to sign and verify)
  pristine,  \* TRUE while doc is exactly what the last successful sign returned
  signErr,   \* error the last sign call reported ("none" when it succeeded)
  store,     \* the nonce store behind the createNonce / checkNonce hooks
  calls,     \* the in-flight verify calls: async.auto task graph and results
  mutations, \* number of tamperings of doc so far
  accepts,   \* verify calls that passed the nonce check on the hook's word:
             \* "none", "once" or "twice" (twice stands for two or more)
  sgn,       \* the last api.sign call as its caller saw it: options and outcome
  hsh,       \* the last two api.hash calls: objects and outcomes
  cipher,    \* the encrypted message at hand and the api.decrypt call on it
  seen,      \* the errors decrypt has reported so far, with the failing step
  reg,       \* the registration flow decoding the authority's response
  regurl,    \* the registration step that builds the registration URL
  pur,       \* the api.purchase call
  rcpt,      \* the api.getReceipt call
  web,       \* the remote documents, the cache hooks and the api.getJsonLd calls
  issued,    \* the nonces created so far and the URLs handed out with them
  post,      \* the api.postJsonLd call and its caller's callback
  buy,       \* the run of the purchase tool
  urlt,      \* the run of the url tool
  keyreg     \* the run of the key registration tool

\* The state of the calls other than verify.
aux == <<sgn, hsh, cipher, seen, reg>>

\* The state of the calls that talk to the authority's services.
ext == <<regurl, pur, rcpt, web>>

\* The state sign and verify work on.
base == <<rev, doc, pristine, signErr, mutations, store, calls, accepts>>

\* The state of the command line tools and of the calls they share with the
\* library.
tools == <<buy, urlt, keyreg>>
cli == <<issued, post, tools>>

vars ==
  <<rev, doc, pristine, signErr, mutations, store, calls, accepts, aux, ext, cli>>

\* --------------------------------------------------------------- bounds
MaxMutations == 1    \* tamperings of the document after construction
MaxMessages == 2     \* encrypted messages the authority sends
NowSec == 2000       \* the wall clock (seconds) read by verify and sign

\* ------------------------------------------------------- program constants
DefaultMaxTimestampDelta == 900   \* 15 * 60 seconds
MsPerSecond == 1000

\* ---------------------------------------------------------------- values
Null == "null"
Revs == {"lib", "p4"}
CallIds == {1, 2}
Nonces == {"n1"}
Domains == {"d1"}
\* Document contents: "A" and "B" are two business payloads; "E" has no
\* @context, so its terms are undefined and its canonical form is empty.
DateStrings == {"T0800", "T2000"}
KeyId == "key1"
SignerKey == "K1"

\* Date.parse on a W3C dateTime string: milliseconds since the epoch.
DateParse(s) ==
  CASE s = "T0800" -> 800 * MsPerSecond
    [] s = "T2000" -> 2000 * MsPerSecond
    [] OTHER -> 0

\* api.w3cDate: the date to the second, fractional seconds dropped.
w3cDate(ms) ==
  LET sec == ms \div MsPerSecond
  IN  IF sec = 800 THEN "T0800" ELSE "T2000"

Date_now == NowSec * MsPerSecond

NoSigValue == [key |-> "", input |-> <<>>]
NoSig == [type |-> "none", creator |-> "", created |-> "",
          signatureValue |-> NoSigValue, nonce |-> Null, domain |-> Null]

\* jsonld.normalize: the canonical N-Quads of an object. A signature property on
\* the object is part of its graph and so of its canonical form.
SigQuads(sig) ==
  IF sig = NoSig THEN <<>>
  ELSE <<"sig", sig.type, sig.creator, sig.created, sig.nonce, sig.domain,
         sig.signatureValue.key>> \o sig.signatureValue.input

ContentQuads(content) == IF content = "E" THEN <<>> ELSE <<content>>

Normalize(obj) == ContentQuads(obj.content) \o SigQuads(obj.sig)

\* crypto.createSign('RSA-SHA256') ... sign(key, 'base64')
RSASign(privateKey, input) == [key |-> privateKey, input |-> input]

\* crypto.createVerify('RSA-SHA256') ... verify(publicKeyPem, signatureValue)
RSAVerify(publicKeyPem, signatureValue, input) ==
  /\ signatureValue.key = publicKeyPem
  /\ signatureValue.input = input

\* The bytes api.sign feeds to the signer.
SignInput(r, nonce, date, normalized, domain) ==
  (IF nonce # Null THEN <<nonce>> ELSE <<>>)
    \o <<date>> \o normalized
    \o (IF r = "p4" /\ domain # Null THEN <<"@", domain>> ELSE <<>>)

\* The signature block api.sign attaches.
SignatureBlockNoNonce(r, nonce, date, domain, value) ==
  [type |-> "GraphSignature2012", creator |-> KeyId, created |-> date,
   signatureValue |-> value, nonce |-> Null,
   domain |-> IF r = "p4" THEN domain ELSE Null]

SignatureBlock(r, nonce, date, domain, value) ==
  [type |-> "GraphSignature2012", creator |-> KeyId, created |-> date,
   signatureValue |-> value, nonce |-> nonce,
   domain |-> IF r = "p4" THEN domain ELSE Null]


\* ------------------------------------------------------ verify: the task graph
\* The tasks api.verify hands to async.auto, in the order of the object's keys.
KeyOrder(r) ==
  IF r = "p4"
  THEN <<"frame", "checkNonce", "checkDomain", "checkDate", "getPublicKey",
         "checkKey", "normalize", "verifySignature">>
  ELSE <<"frame", "checkNonce", "checkDate", "getPublicKey",
         "verifyPublicKeyOwner", "normalize", "verifySignature">>

AllTasks == {"frame", "checkNonce", "checkDomain", "checkDate", "getPublicKey",
             "checkKey", "verifyPublicKeyOwner", "normalize", "verifySignature"}

Tasks(r) == {KeyOrder(r)[i] : i \in 1..Len(KeyOrder(r))}

\* The dependencies each task declares.
Deps(r, t) ==
  CASE t = "frame" -> {}
    [] t \in {"checkNonce", "checkDomain", "checkDate", "getPublicKey"} -> {"frame"}
    [] t \in {"checkKey", "verifyPublicKeyOwner"} -> {"getPublicKey"}
    [] t = "normalize" ->
         IF r = "p4" THEN {"checkNonce", "checkDate", "checkKey"}
         ELSE {"checkNonce", "checkDate", "verifyPublicKeyOwner"}
    [] t = "verifySignature" -> {"normalize"}
    [] OTHER -> {}

\* Task states: "idle" not started; "run" started, its callback not yet called;
\* "done" called back without error; "fail" called back with an error;
\* "hung" returned without calling back and with nothing pending;
\* "threw" raised an exception instead of calling back.
TaskStates == {"idle", "run", "done", "fail", "hung", "threw"}

\* Options of verify. The "lib" revision reads none of them.
DefaultOptions ==
  [checkNonce |-> FALSE, checkDomain |-> FALSE, checkKey |-> FALSE,
   checkKeyOwner |-> FALSE, checkTimestamp |-> TRUE,
   maxTimestampDelta |-> DefaultMaxTimestampDelta]

VerifyOptions ==
  {o \in [checkNonce : BOOLEAN, checkDomain : BOOLEAN, checkKey : BOOLEAN,
          checkKeyOwner : BOOLEAN, checkTimestamp : BOOLEAN,
          maxTimestampDelta : {DefaultMaxTimestampDelta,
                               2 * DefaultMaxTimestampDelta}] :
     \* an option the call never reads is left at its default
     /\ (~o.checkTimestamp => o.maxTimestampDelta = DefaultMaxTimestampDelta)
     /\ (o.checkKeyOwner => o = [DefaultOptions EXCEPT !.checkKeyOwner = TRUE])}

\* What a fetch of the signer's key document can return.
NoKey == [fetch |-> "none", hasPem |-> FALSE, pem |-> "", revoked |-> FALSE]
GoodKey == [fetch |-> "ok", hasPem |-> TRUE, pem |-> "K1", revoked |-> FALSE]
KeyDocs ==
  {GoodKey,
   [fetch |-> "ok", hasPem |-> TRUE, pem |-> "K1", revoked |-> TRUE],
   [fetch |-> "ok", hasPem |-> TRUE, pem |-> "K2", revoked |-> FALSE],
   [fetch |-> "ok", hasPem |-> FALSE, pem |-> "", revoked |-> FALSE],
   [fetch |-> "err", hasPem |-> FALSE, pem |-> "", revoked |-> FALSE]}

NoFrame == [content |-> "", sig |-> NoSig]
NoNorm == [data |-> <<>>, signature |-> NoSig]

IdleCall ==
  [active |-> FALSE, opts |-> DefaultOptions,
   st |-> [t \in AllTasks |-> "idle"],
   frame |-> NoFrame, key |-> NoKey, fetched |-> NoKey, norm |-> NoNorm,
   nonceAns |-> "unasked", domainAns |-> "unasked", trustAns |-> "unasked",
   ownerDoc |-> "unasked",
   err |-> [t \in AllTasks |-> "none"], cb |-> "none"]

\* taskCallback of async.auto: an error goes to the final callback, once.
Fail(call, t, err) ==
  [call EXCEPT !.st[t] = "fail", !.err[t] = err,
               !.cb = IF @ = "none" THEN err ELSE @]

Done(call, t) == [call EXCEPT !.st[t] = "done"]

Position(r, t) == CHOOSE i \in 1..Len(KeyOrder(r)) : KeyOrder(r)[i] = t

DepsDone(c, t) ==
  /\ calls[c].active
  /\ t \in Tasks(rev)
  /\ calls[c].st[t] = "idle"
  /\ \A d \in Deps(rev, t) : calls[c].st[d] = "done"

\* async.auto starts every task whose dependencies have completed, in key order.
Ready(c, t) ==
  /\ DepsDone(c, t)
  /\ \A u \in Tasks(rev) : Position(rev, u) < Position(rev, t) => ~DepsDone(c, u)

NoCallActive == \A c \in CallIds : ~calls[c].active

\* --------------------------------------------------- state of the other calls
\* JavaScript's undefined, and the values the || operator takes as false.
Undefined == "undefined"
Falsy(v) == v \in {Undefined, Null, ""}

\* options.x || null
OrNull(v) == IF Falsy(v) THEN Null ELSE v

\* Strings that are PEM-formatted RSA private keys.
PemKeys == {"K1", "K2"}

NoDoc == [content |-> "", sig |-> NoSig, others |-> 0]
NotRun == <<"notrun">>


NoSgn ==
  [called |-> FALSE,
   options |-> [key |-> Undefined, keyId |-> Undefined, nonce |-> Undefined,
                date |-> Undefined, domain |-> Undefined],
   before |-> NoDoc, normalized |-> NotRun]

NoHashed == [err |-> "none", id |-> <<>>]
NoHsh == [called |-> FALSE, a |-> NoDoc, b |-> NoDoc,
          ra |-> NoHashed, rb |-> NoHashed]

\* An EncryptedMessage. cipherKey and initializationVector are RSA ciphertexts
\* (to: the public key they were made for), cipherData an AES ciphertext (the
\* key and IV it was made with, and the text); each is base64-encoded.
Base64(v) == [b64 |-> v]
Base64Decode(s) == s.b64

NoRsa == [to |-> "", body |-> ""]
NoAes == [key |-> "", iv |-> "", body |-> <<>>, whole |-> TRUE]
NoEnc == [cipherAlgorithm |-> "", cipherKey |-> Base64(NoRsa),
          initializationVector |-> Base64(NoRsa), cipherData |-> Base64(NoAes)]

\* cipher.st: "none" no message; "ready" a message has arrived; "verifying"
\* decrypt waits for the verify call it made; "done" decrypt has called back.
NoCipher ==
  [st |-> "none", enc |-> NoEnc, plain |-> NoDoc, json |-> FALSE,
   tampered |-> FALSE, err |-> "none", detail |-> "", step |-> "none",
   key |-> "", msg |-> NoDoc, handed |-> NoDoc, ops |-> <<>>, n |-> 0]

\* What a registration flow writes to the caller's configuration.
NoPersist == [publicKey |-> "", owner |-> "", source |-> ""]

\* reg.st: "none" no flow; "decrypt" the flow has handed the message to
\* decrypt; "verify" it waits for verify; "write" it waits for the write of
\* the configuration or for the storePublicKeyId hook; "done"; "failed".
\* reg.prefs: the second argument api.registerVendor gave to its callback.
NotCalled == [content |-> "notcalled", sig |-> NoSig, others |-> 0]
NullDoc == [content |-> Null, sig |-> NoSig, others |-> 0]
UndefinedDoc == [content |-> Undefined, sig |-> NoSig, others |-> 0]

NoReg ==
  [flow |-> "none", st |-> "none", verified |-> FALSE, config |-> NoPersist,
   persisted |-> NoPersist, err |-> "none", prefs |-> NotCalled]

\* The tasks of async.auto in api.getRegisterVendorUrl, in key order.
UrlTasks == {"trustedAuthority", "getRegisterUrl", "getPublicKey", "createNonce"}

\* Key pairs are numbered as they are generated; NoPair is no pair at all.
NoPair == 0
PublicPem(pair) == IF pair = NoPair THEN Undefined ELSE <<"public", pair>>

NoUrl == [service |-> "", publicKey |-> Undefined, nonce |-> ""]

\* regurl.flow: "lib" api.getRegisterVendorUrl, "tool" register of part_001,
\* "example" examples/register-new-key.js. stored is the key pair the vendor's
\* storage holds (the storeKeyPair hook's store, the configuration of the
\* tools), had the pair it held when the step started, made the number of
\* pairs generated so far, gen whether this step generated one.
NoRegUrl ==
  [flow |-> "none", overwrite |-> FALSE, stored |-> NoPair, had |-> NoPair,
   made |-> 0, gen |-> FALSE, pending |-> NoPair,
   task |-> [t \in UrlTasks |-> "idle"], stage |-> "none",
   storeArg |-> Undefined, trusted |-> {}, key |-> Undefined, nonce |-> "",
   cb |-> "none", url |-> NoUrl]

\* The tasks of async.auto in api.getPurchaseUrl.
PurlTasks == {"getPurchaseUrl", "createNonce"}

NoPurl ==
  [task |-> [t \in PurlTasks |-> "idle"], service |-> "", nonce |-> "",
   cb |-> "none", url |-> NoUrl]

\* issued.clock: the reading of the clock, in milliseconds; issued.created:
\* the number of nonces the createNonce hook has created; issued.fresh: the
\* nonces it created; issued.urls: the response-nonces of the URLs handed out
\* so far; issued.dup: a URL was handed out with the nonce of an earlier one;
\* issued.purl: the api.getPurchaseUrl call.
NoIssued ==
  [clock |-> 0, created |-> 0, fresh |-> {}, urls |-> {}, dup |-> FALSE,
   purl |-> NoPurl]
\* The purchase request api.purchase builds, and a request on the wire.
NoRequest ==
  [type |-> "", identity |-> "", listing |-> "", listingHash |-> <<>>,
   source |-> Undefined, signature |-> NoSig]
NoNode == [type |-> "", id |-> "", content |-> ""]

\* pur.st: "none" not called; "frame", "hash", "sign", "post" waiting for
\* the callback of that step; "done" the callback of purchase was called;
\* "threw" an exception left a step and the callback is never called.
\* hashed and signed count the calls of api.hash and api.sign, sent holds the
\* requests that went to the transaction service.
NoPur ==
  [st |-> "none", graph |-> {}, opts |-> [key |-> Undefined, source |-> Undefined],
   framed |-> {}, listing |-> NoNode, hash |-> NoHashed, request |-> NoRequest,
   hashed |-> 0, signed |-> 0, sent |-> <<>>, cb |-> "none", result |-> ""]
\* rcpt.st: "none" no call; "decrypt" api.getReceipt has handed the message
\* to decrypt; "verify" it waits for verify; "done" it has called back;
\* "threw" an exception left one of its tasks and the callback is never
\* called. decoded tells that the decode (decrypt, then verify) succeeded;
\* receipt is the second argument of the callback.
NoRcpt ==
  [st |-> "none", decoded |-> FALSE, cb |-> "none", receipt |-> NotCalled]
\* The URLs asked for: the first serves a document, the second nothing.
Urls == {"url1", "url2"}
NoResult == Null

\* An api.getJsonLd call. st: "none" not called; "lookup" waiting for the
\* getCachedJsonLd hook; "fetch" for the getJsonLd hook; "store" for the
\* cacheJsonLd hook; "done" called back; "hung" returned without calling
\* back. fetches counts the network fetches of the call; fetchErr and hookErr
\* tell that a fetch or a cache hook reported an error.
NoFetchCall ==
  [kind |-> "none", st |-> "none", url |-> "", cache |-> FALSE, fetches |-> 0,
   fetchErr |-> FALSE, hookErr |-> FALSE, hit |-> FALSE, fetched |-> NoResult,
   cb |-> "none", result |-> NoResult]

\* web.hooks: the cache hooks are installed; web.cached: the entries of the
\* cache behind them; web.call: the api.getJsonLd call at hand.
NoWeb ==
  [hooks |-> FALSE, cached |-> [u \in Urls |-> NoResult], call |-> NoFetchCall]

\* post.st: "none" not called, "sent" waiting for the transport, "done" the
\* transport has answered. throws tells whether the code the caller's callback
\* runs throws; passed is the options object the transport was given;
\* invocations lists what the callback was called with, in order.
NoPost ==
  [st |-> "none", url |-> "", throws |-> FALSE,
   request |-> [method |-> "", body |-> NoRequest], passed |-> "",
   invocations |-> <<>>]
\* buy.part: which of the two purchase functions of tools/purchase.js runs,
\* "first" (line 65) or "second" (line 323). st: "none" not started,
\* "prepare" the config, source and listing tasks are running, "run" the
\* confirm task has started. prompt: "none", "open", "answered"; prompted
\* counts the prompts shown. confirms lists what the confirm task called back
\* with, confirm is results.confirm. purchase is the state of the purchase
\* task, sent counts the purchase requests, cb is what the final callback of
\* async.auto got.
NoBuy ==
  [st |-> "none", part |-> "", yes |-> FALSE, prompt |-> "none", prompted |-> 0,
   confirms |-> <<>>, confirm |-> "unset", purchase |-> "idle", sent |-> 0,
   cb |-> "none"]
\* A URL as the tools are given it: the host name as written and the port as
\* written ("" when the URL names none).
NoTarget == [hostname |-> "", port |-> "", path |-> ""]

\* urlt.st: "none" not started, "read" reading the configuration, "data"
\* reading the --data document, "request" waiting for the response, "done".
\* sent lists the targets of the requests sent, fetched tells that the --data
\* document was asked for, cb is what the final callback of the waterfall got.
NoUrlt ==
  [st |-> "none", target |-> NoTarget, cross |-> FALSE, data |-> "none",
   sent |-> <<>>, fetched |-> FALSE, cb |-> "none"]
\* The key registration programs: "tool" is register of part_001, "example"
\* examples/register-new-key.js, "auto" part_008. Their steps, in the order
\* the program lists them.
KeyRegOrder(flow) ==
  CASE flow = "tool" ->
         <<"config", "configCheck", "keys", "endpoints", "encryptedMessagePrompt",
           "encryptedMessage", "message", "updateConfig", "writeConfig", "done">>
    [] flow = "example" ->
         <<"getConfigFilename", "readConfig", "keys", "endpoints", "prompt",
           "decrypt", "update", "writeConfig", "report">>
    [] flow = "auto" ->
         <<"getConfig", "readKey", "getWebKeysConfig", "getUrl", "decrypt",
           "updateKey">>
    [] OTHER -> <<>>

KeyRegFlows == {"tool", "example", "auto"}

KeyRegTasks(flow) == {KeyRegOrder(flow)[i] : i \in 1..Len(KeyRegOrder(flow))}

KeyRegAllTasks == UNION {KeyRegTasks(flow) : flow \in KeyRegFlows}

\* keyreg.task: the state of each step, "idle", "run", "done", "fail" (called
\* back with an error), "threw" or "hung". overwrite is --overwrite, hasKey
\* tells that the configuration read holds a key pair, exists that the
\* configuration file exists. file is what the configuration file holds
\* ("old" what it held before, "pair" the generated key pair, "registered"
\* the key id, owner and account of the response), reported tells that the
\* completion was reported, cb is what the final callback got, exited that
\* the process has ended.
NoKeyReg ==
  [flow |-> "none", overwrite |-> FALSE, hasKey |-> FALSE, exists |-> FALSE,
   task |-> [t \in KeyRegAllTasks |-> "idle"], file |-> "old",
   reported |-> FALSE, cb |-> "none", exited |-> FALSE]

\* ------------------------------------------------------------------ Init
InitWith(revs, contents) ==
  /\ rev \in revs
  /\ doc \in [content : contents, sig : {NoSig}, others : {0}]
  /\ pristine = FALSE
  /\ mutations = 0
  /\ signErr = "none"
  /\ store = Nonces
  /\ calls = [c \in CallIds |-> IdleCall]
  /\ accepts = "none"
  /\ sgn = NoSgn
  /\ hsh = NoHsh
  /\ cipher = NoCipher
  /\ seen = {}
  /\ reg = NoReg
  /\ regurl = NoRegUrl
  /\ pur = NoPur
  /\ rcpt = NoRcpt
  /\ web = NoWeb
  /\ issued = NoIssued
  /\ post = NoPost
  /\ buy = NoBuy
  /\ urlt = NoUrlt
  /\ keyreg = NoKeyReg

Init == InitWith(Revs, {"A", "E"})


\* ------------------------------------------------------------- api.sign
\* sign(obj, {key, keyId, nonce, date, domain}, callback): defaults the options,
\* normalizes obj, signs, and attaches the signature block to obj. ("lib" names
\* the options privateKeyPem, publicKeyId and dateTime, and has no domain.)
\* signErr is what the caller sees: "none", the error given to the callback,
\* "TypeError" thrown at once, or "threw" for an exception raised inside the
\* sign task, after which the callback is never called.
\* The runs sign a document that carries no signature yet.
SignOutcomeAttachesFirst(r, d, options) ==
  LET key == options.key
      nonce == OrNull(options.nonce)
      domain == IF r = "p4" THEN OrNull(options.domain) ELSE Null
      date == IF Falsy(options.date) THEN w3cDate(Date_now) ELSE options.date
      normalized == Normalize(d)
      value == RSASign(key, SignInput(r, nonce, date, normalized, domain))
      signed == [d EXCEPT !.sig = SignatureBlock(r, nonce, date, domain, value)]
  IN  IF r = "p4" /\ (key = Undefined \/ options.keyId = Undefined)
      THEN [err |-> "TypeError", doc |-> d, normalized |-> NotRun]
      ELSE IF Len(normalized) = 0
      THEN [err |-> "EmptyData", doc |-> signed, normalized |-> normalized]
      ELSE IF key \notin PemKeys
      THEN [err |-> "threw", doc |-> signed, normalized |-> normalized]
      ELSE [err |-> "none", doc |-> signed, normalized |-> normalized]

SignOutcome(r, d, options) ==
  LET key == options.key
      nonce == OrNull(options.nonce)
      domain == IF r = "p4" THEN OrNull(options.domain) ELSE Null
      date == IF Falsy(options.date) THEN w3cDate(Date_now) ELSE options.date
      normalized == Normalize(d)
      value == RSASign(key, SignInput(r, nonce, date, normalized, domain))
      signature == [SignatureBlock(r, nonce, date, domain, value)
                      EXCEPT !.creator = IF r = "lib" THEN OrNull(options.keyId)
                                         ELSE options.keyId]
  IN  IF r = "p4" /\ (key = Undefined \/ options.keyId = Undefined)
      THEN [err |-> "TypeError", doc |-> d, normalized |-> NotRun]
      ELSE IF Len(normalized) = 0
      THEN [err |-> "EmptyData", doc |-> d, normalized |-> normalized]
      ELSE IF key \notin PemKeys
      THEN [err |-> "threw", doc |-> d, normalized |-> normalized]
      ELSE [err |-> "none", doc |-> [d EXCEPT !.sig = signature],
            normalized |-> normalized]

SignCall(options) ==
  /\ NoCallActive
  /\ doc.sig = NoSig
  /\ LET out == SignOutcome(rev, doc, options)
     IN  /\ signErr' = out.err
         /\ doc' = out.doc
         /\ pristine' = IF out.err = "none" THEN TRUE ELSE pristine
  /\ UNCHANGED <<cli, ext, rev, mutations, store, calls, accepts, hsh, cipher, seen, reg>>

\* sign with the signer's own key and key id.
Sign(nonce, dateOpt, domain) ==
  /\ SignCall([key |-> SignerKey, keyId |-> KeyId, nonce |-> nonce,
               date |-> dateOpt, domain |-> domain])
  /\ UNCHANGED sgn

\* sign with any options, the call recorded as its caller saw it.
SignWith(options) ==
  /\ SignCall(options)
  /\ sgn' = [called |-> TRUE, options |-> options, before |-> doc,
             normalized |-> SignOutcome(rev, doc, options).normalized]

\* The signature blocks a canonical form holds.
SignatureQuads(normalized) ==
  Cardinality({i \in 1..Len(normalized) : normalized[i] = "sig"})

\* The number of sign calls the document at hand went through.
MaxSignings == 2
Signings(d) ==
  IF d.sig = NoSig THEN 0 ELSE 1 + SignatureQuads(d.sig.signatureValue.input)

\* sign called on a document that carries a signature block already: obj is
\* normalized as it is, and obj.signature is set to the new block.
SignAgain(options) ==
  /\ NoCallActive
  /\ doc.sig # NoSig
  /\ Signings(doc) < MaxSignings
  /\ LET out == SignOutcome(rev, doc, options)
     IN  /\ signErr' = out.err
         /\ doc' = out.doc
         /\ pristine' = IF out.err = "none" THEN TRUE ELSE pristine
         /\ sgn' = [called |-> TRUE, options |-> options, before |-> doc,
                    normalized |-> out.normalized]
  /\ UNCHANGED <<cli, ext, rev, mutations, store, calls, accepts, hsh, cipher, seen, reg>>

\* ------------------------------------------------------------- api.hash
\* The bytes of a string token (md.update(result, 'utf8')): the tokens the
\* documents are made of, numbered.
TokenTable ==
  <<"", "null", "undefined", "A", "B", "O", "P", "X", "sig",
    "GraphSignature2012", "OtherSignature", "key1", "key2", "K1", "K2",
    "T0800", "T2000", "n1", "d1", "@", "ab", "ba">>

Utf8(tok) == CHOOSE i \in 1..Len(TokenTable) : TokenTable[i] = tok

\* crypto.createHash('sha256'): the digest of a sequence of tokens, as bytes.
\* The digest is narrowed to two bytes; like SHA-256 it depends on every byte
\* of the input and on their order.
RECURSIVE Mix(_, _)
Mix(h, tokens) ==
  IF tokens = <<>> THEN h
  ELSE Mix((h * 33 + Utf8(Head(tokens))) % 65536, Tail(tokens))

SHA256(tokens) ==
  LET h == Mix(5381, tokens) IN <<h \div 256, h % 256>>

\* md.digest('hex'): two lowercase hexadecimal digits per byte.
HexDigits ==
  <<"0", "1", "2", "3", "4", "5", "6", "7", "8", "9", "a", "b", "c", "d", "e", "f">>

RECURSIVE Hex(_)
Hex(bytes) ==
  IF bytes = <<>> THEN <<>>
  ELSE <<HexDigits[(Head(bytes) \div 16) + 1], HexDigits[(Head(bytes) % 16) + 1]>>
         \o Hex(Tail(bytes))

\* JSON.stringify(obj): the text of the object as written, key order included.
JSONText(obj) == <<obj.order>> \o Normalize(obj)

\* hash(obj, callback): (err, 'urn:sha256:' + hex digest of the N-Quads).
HashOutcomeOfJson(obj) ==
  IF Len(Normalize(obj)) = 0 THEN [err |-> "EmptyData", id |-> <<>>]
  ELSE [err |-> "none", id |-> <<"urn:sha256:">> \o Hex(SHA256(JSONText(obj)))]

HashOutcome(obj) ==
  LET result == Normalize(obj)
  IN  IF Len(result) = 0 THEN [err |-> "EmptyData", id |-> <<>>]
      ELSE [err |-> "none", id |-> <<"urn:sha256:">> \o Hex(SHA256(result))]

\* Two calls of hash, on any two objects.
Hash(a, b) ==
  /\ hsh' = [called |-> TRUE, a |-> a, b |-> b,
             ra |-> HashOutcome(a), rb |-> HashOutcome(b)]
  /\ UNCHANGED <<cli, ext, rev, doc, pristine, signErr, mutations, store, calls, accepts,
                 sgn, cipher, seen, reg>>

\* -------------------------------------------------------- the hybrid cipher
CipherSuite == "rsa-sha256-aes-128-cbc"

\* The recipient's key pair, and another pair.
RecipientKey == "R1"
PublicOf(privateKeyPem) ==
  IF privateKeyPem = RecipientKey THEN "R1.pub" ELSE "R2.pub"

\* JSON.stringify / JSON.parse of a document: the text is the document between
\* braces; a text of any other shape does not parse.
JSONStringify(d) == <<"{", d, "}">>
JSONParses(text) == Len(text) = 3 /\ text[1] = "{" /\ text[3] = "}"
JSONParse(text) == text[2]

\* RSA-OAEP under a public key, AES-128-CBC under a key and an IV.
RSAEncrypt(publicKey, v) == [to |-> publicKey, body |-> v]
AESEncrypt(key, iv, text) == [key |-> key, iv |-> iv, body |-> text, whole |-> TRUE]

\* The authority's side: a fresh key and IV, the JSON of the document under
\* AES, the key and the IV each under the recipient's public key.
EncryptMessage(text, publicKey, key, iv) ==
  [cipherAlgorithm |-> CipherSuite,
   cipherKey |-> Base64(RSAEncrypt(publicKey, key)),
   initializationVector |-> Base64(RSAEncrypt(publicKey, iv)),
   cipherData |-> Base64(AESEncrypt(key, iv, text))]

\* pkey.decrypt(data, 'base64', 'binary', RSA_PKCS1_OAEP_PADDING): throws
\* unless data was made for this key.
RSADecryptThrows(privateKeyPem, data) ==
  Base64Decode(data).to # PublicOf(privateKeyPem)
RSADecrypt(privateKeyPem, data) == Base64Decode(data).body

\* decipher.update(data, 'base64', 'utf8'): the text of all blocks but the
\* last, which final() returns once it has checked the padding. Under another
\* IV the first block comes out garbled.
DecipherText(key, iv, data) ==
  LET c == Base64Decode(data)
  IN  IF iv = c.iv THEN c.body ELSE <<"garbled">> \o Tail(c.body)

DecipherUpdate(key, iv, data) ==
  LET text == DecipherText(key, iv, data)
  IN  SubSeq(text, 1, Len(text) - 1)

\* decipher.final('utf8') throws when the last block does not end in valid
\* padding: the data was cut, or was made with another key.
DecipherFinalThrows(key, iv, data) ==
  LET c == Base64Decode(data) IN key # c.key \/ ~c.whole

DecipherFinal(key, iv, data) ==
  LET text == DecipherText(key, iv, data)
  IN  SubSeq(text, Len(text), Len(text))

\* The error decrypt builds in its catch block:
\* 'Failed to decrypt the encrypted message: ' + ex.toString().
DecryptFailure(step, ex, ops) ==
  [err |-> "DecryptFailed", detail |-> ex, step |-> step, msg |-> NoDoc,
   ops |-> ops]

\* decrypt up to the parsed message: the algorithm test, the RSA decryption
\* of key and IV, the AES decryption, JSON.parse.
DecryptOutcomeLateAlgorithmTest(encrypted, key) ==
  LET encryptionKey == RSADecrypt(key, encrypted.cipherKey)
      iv == RSADecrypt(key, encrypted.initializationVector)
      decrypted == DecipherUpdate(encryptionKey, iv, encrypted.cipherData)
                     \o DecipherFinal(encryptionKey, iv, encrypted.cipherData)
  IN  IF RSADecryptThrows(key, encrypted.cipherKey)
      THEN DecryptFailure("cipherKey", "oaep decoding error", <<"rsa">>)
      ELSE IF RSADecryptThrows(key, encrypted.initializationVector)
      THEN DecryptFailure("initializationVector", "oaep decoding error",
                          <<"rsa", "rsa">>)
      ELSE IF encrypted.cipherAlgorithm # CipherSuite
      THEN [err |-> "UnknownAlgorithm", detail |-> encrypted.cipherAlgorithm,
            step |-> "algorithm", msg |-> NoDoc, ops |-> <<"rsa", "rsa">>]
      ELSE IF DecipherFinalThrows(encryptionKey, iv, encrypted.cipherData)
      THEN DecryptFailure("padding", "bad decrypt", <<"rsa", "rsa", "aes">>)
      ELSE IF ~JSONParses(decrypted)
      THEN DecryptFailure("parse", "SyntaxError", <<"rsa", "rsa", "aes">>)
      ELSE [err |-> "none", detail |-> "", step |-> "none",
            msg |-> JSONParse(decrypted), ops |-> <<"rsa", "rsa", "aes">>]

DecryptOutcomeWithoutFinal(encrypted, key) ==
  LET encryptionKey == RSADecrypt(key, encrypted.cipherKey)
      iv == RSADecrypt(key, encrypted.initializationVector)
      decrypted == DecipherUpdate(encryptionKey, iv, encrypted.cipherData)
  IN  IF encrypted.cipherAlgorithm # CipherSuite
      THEN [err |-> "UnknownAlgorithm", detail |-> encrypted.cipherAlgorithm,
            step |-> "algorithm", msg |-> NoDoc, ops |-> <<>>]
      ELSE IF RSADecryptThrows(key, encrypted.cipherKey)
      THEN DecryptFailure("cipherKey", "oaep decoding error", <<"rsa">>)
      ELSE IF RSADecryptThrows(key, encrypted.initializationVector)
      THEN DecryptFailure("initializationVector", "oaep decoding error",
                          <<"rsa", "rsa">>)
      ELSE IF ~JSONParses(decrypted)
      THEN DecryptFailure("parse", "SyntaxError", <<"rsa", "rsa", "aes">>)
      ELSE [err |-> "none", detail |-> "", step |-> "none",
            msg |-> JSONParse(decrypted), ops |-> <<"rsa", "rsa", "aes">>]

DecryptOutcome(encrypted, key) ==
  LET encryptionKey == RSADecrypt(key, encrypted.cipherKey)
      iv == RSADecrypt(key, encrypted.initializationVector)
      decrypted == DecipherUpdate(encryptionKey, iv, encrypted.cipherData)
                     \o DecipherFinal(encryptionKey, iv, encrypted.cipherData)
  IN  IF encrypted.cipherAlgorithm # CipherSuite
      THEN [err |-> "UnknownAlgorithm", detail |-> encrypted.cipherAlgorithm,
            step |-> "algorithm", msg |-> NoDoc, ops |-> <<>>]
      ELSE IF RSADecryptThrows(key, encrypted.cipherKey)
      THEN DecryptFailure("cipherKey", "oaep decoding error", <<"rsa">>)
      ELSE IF RSADecryptThrows(key, encrypted.initializationVector)
      THEN DecryptFailure("initializationVector", "oaep decoding error",
                          <<"rsa", "rsa">>)
      ELSE IF DecipherFinalThrows(encryptionKey, iv, encrypted.cipherData)
      THEN DecryptFailure("padding", "bad decrypt", <<"rsa", "rsa", "aes">>)
      ELSE IF ~JSONParses(decrypted)
      THEN DecryptFailure("parse", "SyntaxError", <<"rsa", "rsa", "aes">>)
      ELSE [err |-> "none", detail |-> "", step |-> "none",
            msg |-> JSONParse(decrypted), ops |-> <<"rsa", "rsa", "aes">>]

\* The authority encrypts the document as it stands, or a text that is not
\* JSON, for a public key, and the message arrives.
Encrypt(json, publicKey) ==
  /\ NoCallActive
  /\ cipher.st \in {"none", "done"}
  /\ cipher.n < MaxMessages
  /\ LET text == IF json THEN JSONStringify(doc) ELSE <<"notjson">>
     IN  cipher' = [NoCipher EXCEPT
           !.st = "ready", !.json = json, !.plain = doc, !.n = cipher.n + 1,
           !.enc = EncryptMessage(text, publicKey, "S1", "I1")]
  /\ UNCHANGED <<cli, ext, rev, doc, pristine, signErr, mutations, store, calls, accepts,
                 sgn, hsh, seen, reg>>

\* The message is damaged or altered on its way.
TamperEnc(kind) ==
  /\ cipher.st = "ready"
  /\ ~cipher.tampered
  /\ LET enc == cipher.enc
         to == Base64Decode(enc.cipherKey).to
     IN  cipher' = [cipher EXCEPT !.tampered = TRUE, !.enc =
           CASE kind = "algorithm" -> [enc EXCEPT !.cipherAlgorithm = "unknown"]
             [] kind = "cipherKey" -> [enc EXCEPT !.cipherKey = Base64(NoRsa)]
             [] kind = "initializationVector" ->
                  [enc EXCEPT !.initializationVector = Base64(NoRsa)]
             [] kind = "otherKey" ->
                  [enc EXCEPT !.cipherKey = Base64(RSAEncrypt(to, "S2"))]
             [] kind = "otherIv" ->
                  [enc EXCEPT !.initializationVector = Base64(RSAEncrypt(to, "I2"))]
             [] OTHER -> [enc EXCEPT !.cipherData.b64.whole = FALSE]]
  /\ UNCHANGED <<cli, ext, rev, doc, pristine, signErr, mutations, store, calls, accepts,
                 sgn, hsh, seen, reg>>

TamperKinds ==
  {"algorithm", "cipherKey", "initializationVector", "otherKey", "otherIv", "cut"}

\* api.decrypt(encrypted, key, options, callback). "lib" calls back with the
\* parsed message; "p4" hands it to verify with options.verify and calls back
\* when verify does.
Decrypt(key, verifyOptions) ==
  /\ cipher.st = "ready"
  /\ NoCallActive
  /\ LET out == DecryptOutcome(cipher.enc, key)
     IN  IF rev = "p4" /\ out.err = "none"
         THEN /\ cipher' = [cipher EXCEPT !.st = "verifying", !.key = key,
                                          !.msg = out.msg, !.ops = out.ops]
              /\ doc' = out.msg
              /\ calls' = [calls EXCEPT ![1] =
                   [IdleCall EXCEPT !.active = TRUE, !.opts = verifyOptions]]
              /\ seen' = seen
         ELSE /\ cipher' = [cipher EXCEPT !.st = "done", !.key = key,
                     !.err = out.err,
                     !.detail = out.detail, !.step = out.step,
                     !.msg = out.msg, !.ops = out.ops,
                     !.handed = IF out.err = "none" THEN out.msg
                                ELSE UndefinedDoc]
              /\ seen' = IF out.err = "DecryptFailed"
                         THEN seen \cup {[step |-> out.step, err |-> out.err,
                                          detail |-> out.detail]}
                         ELSE seen
              /\ UNCHANGED <<doc, calls>>
  /\ UNCHANGED <<cli, ext, rev, pristine, signErr, mutations, store, accepts, sgn, hsh, reg>>

\* function(err) { callback(err, msg); } given to verify by "p4" decrypt: the
\* document the caller is handed.
VerifiedMessage(err, msg) == msg

DecryptVerified ==
  /\ cipher.st = "verifying"
  /\ calls[1].cb # "none"
  /\ cipher' = [cipher EXCEPT !.st = "done",
                  !.err = IF calls[1].cb = "ok" THEN "none" ELSE calls[1].cb,
                  !.step = IF calls[1].cb = "ok" THEN "none" ELSE "verify",
                  !.handed = VerifiedMessage(calls[1].cb, cipher.msg)]
  /\ UNCHANGED <<cli, ext, rev, doc, pristine, signErr, mutations, store, calls, accepts,
                 sgn, hsh, seen, reg>>

\* ------------------------------------------------------------ api.purchase
\* The nodes a caller's graph can hold: Listings, and an Asset beside them.
\* The second Listing has no terms, so hashing it fails.
ListingNodes ==
  {[type |-> "Listing", id |-> "listing1", content |-> "A"],
   [type |-> "Listing", id |-> "listing2", content |-> "E"],
   [type |-> "Asset", id |-> "asset1", content |-> "B"]}

\* jsonld.frame(listing, api.FRAMES.Listing): the nodes of type Listing.
FrameListings(graph) == {n \in graph : n.type = "Listing"}

\* The test on framed['@graph'].length that lets the first Listing through.
FrameListingErrorTakesFirst(framed) ==
  IF Cardinality(framed) = 0 THEN "AmbiguousListing" ELSE "none"

\* The test on framed['@graph'].length: 'No Listings found.' and
\* 'More than one Listing found.'
FrameListingError(framed) ==
  IF Cardinality(framed) = 0 THEN "AmbiguousListing"
  ELSE IF Cardinality(framed) > 1 THEN "AmbiguousListing"
  ELSE "none"

\* The object api.hash and api.sign are given.
AsObject(content) == [content |-> content, sig |-> NoSig, order |-> "ab"]

\* The purchase request before it is signed.
PurchaseRequest(listing, hash, options) ==
  [type |-> "PurchaseRequest", identity |-> "customer1", listing |-> listing.id,
   listingHash |-> hash, source |-> options.source, signature |-> NoSig]

\* The options api.purchase gives to api.sign: "lib" builds them from
\* options.publicKey and options.privateKeyPem, "p4" passes options.sign.
PurchaseSignOptions(options) ==
  [key |-> options.key, keyId |-> KeyId, nonce |-> Undefined,
   date |-> Undefined, domain |-> Undefined]

\* api.sign on the purchase request.
SignRequest(r, request, options) ==
  LET out == SignOutcome(r, [content |-> "O", sig |-> NoSig, others |-> 0],
                         PurchaseSignOptions(options))
  IN  [err |-> out.err, request |-> [request EXCEPT !.signature = out.doc.sig]]

\* What api.postJsonLd puts on the wire. "lib" hands url and obj to the
\* postJsonLd hook, which performs the POST of obj. "p4" prepares opts with
\* method POST and the body, then calls jsonld.request(url, options, ...)
\* with the options it was given, which hold neither.
PostJsonLdRequest(r, obj) ==
  IF r = "lib" THEN [method |-> "POST", body |-> obj]
  ELSE [method |-> "GET", body |-> NoRequest]

PurchaseOptions == [key : {SignerKey, "notpem"}, source : {Undefined, "account1"}]

\* api.purchase(listing, options, callback): framing starts.
Purchase(graph, options) ==
  /\ pur.st \in {"none", "done", "threw"}
  /\ pur' = [NoPur EXCEPT !.st = "frame", !.graph = graph, !.opts = options]
  /\ UNCHANGED <<cli, base, aux, regurl, rcpt, web>>

\* jsonld.frame calls back: with an error, or with the framed graph, which is
\* tested; the one Listing goes to api.hash.
PurchaseFramed(frameErr) ==
  /\ pur.st = "frame"
  /\ LET framed == FrameListings(pur.graph)
         e == IF frameErr THEN "FrameError" ELSE FrameListingError(framed)
     IN  pur' = IF e # "none"
                THEN [pur EXCEPT !.st = "done", !.cb = e,
                                 !.framed = IF frameErr THEN {} ELSE framed]
                ELSE [pur EXCEPT !.st = "hash", !.framed = framed,
                                 !.listing = CHOOSE n \in framed : TRUE,
                                 !.hashed = @ + 1]
  /\ UNCHANGED <<cli, base, aux, regurl, rcpt, web>>

\* api.hash calls back: the purchase request is built and goes to api.sign.
PurchaseHashed ==
  /\ pur.st = "hash"
  /\ LET out == HashOutcome(AsObject(pur.listing.content))
     IN  pur' = IF out.err # "none"
                THEN [pur EXCEPT !.st = "done", !.cb = out.err, !.hash = out]
                ELSE [pur EXCEPT !.st = "sign", !.hash = out,
                        !.request = PurchaseRequest(pur.listing, out.id, pur.opts),
                        !.signed = @ + 1]
  /\ UNCHANGED <<cli, base, aux, regurl, rcpt, web>>

\* api.sign calls back, or throws: the signed request goes to api.postJsonLd.
PurchaseSigned ==
  /\ pur.st = "sign"
  /\ LET out == SignRequest(rev, pur.request, pur.opts)
     IN  pur' = IF out.err \in {"threw", "TypeError"}
                THEN [pur EXCEPT !.st = "threw"]
                ELSE IF out.err # "none"
                THEN [pur EXCEPT !.st = "done", !.cb = out.err]
                ELSE [pur EXCEPT !.st = "post", !.request = out.request,
                        !.sent = Append(@, PostJsonLdRequest(rev, out.request))]
  /\ UNCHANGED <<cli, base, aux, regurl, rcpt, web>>

\* The transaction service answers, or the request fails.
PurchasePosted(ok) ==
  /\ pur.st = "post"
  /\ pur' = [pur EXCEPT !.st = "done", !.cb = IF ok THEN "ok" ELSE "err",
                        !.result = IF ok THEN "response" ELSE ""]
  /\ UNCHANGED <<cli, base, aux, regurl, rcpt, web>>

\* ------------------------------------------------------------ api.postJsonLd
PostObjects ==
  {[NoRequest EXCEPT !.type = "PurchaseRequest", !.listing = l] :
     l \in {"listing1", "listing2"}}

PostResponses == {"err", "ok", "malformed"}

\* The options of the caller: none, or with settings for the request.
PostOptions == {Undefined, "request1"}

\* The options handed to the transport: "lib" options.request || {}, "p4" the
\* caller's options object itself.
PassedOptions(r, options) ==
  IF r = "lib" THEN (IF Falsy(options) THEN "{}" ELSE options)
  ELSE IF Falsy(options) THEN "{}" ELSE "{request}"

\* The calls of the caller's callback once the transport has answered. "lib":
\* the second step of the waterfall calls callback(null, result) inside a try
\* block whose catch calls callback with an error. "p4": the handler of
\* jsonld.request passes an error on, reports a response that does not parse,
\* and calls callback(err, data) after the try block.
PostCallbacks(r, resp, throws) ==
  IF resp = "err" THEN <<"err">>
  ELSE IF r = "lib"
  THEN IF throws THEN <<"ok", "InvalidResponse">> ELSE <<"ok">>
  ELSE IF resp = "malformed" THEN <<"InvalidResponse">> ELSE <<"ok">>

\* api.postJsonLd(url, obj, options, callback): the request goes out.
PostJsonLd(url, obj, options, throws) ==
  /\ post.st \in {"none", "done"}
  /\ post' = [NoPost EXCEPT !.st = "sent", !.url = url, !.throws = throws,
                            !.request = PostJsonLdRequest(rev, obj),
                            !.passed = PassedOptions(rev, options)]
  /\ UNCHANGED <<issued, tools, base, aux, ext>>

\* The transport answers.
PostResponse(resp) ==
  /\ post.st = "sent"
  /\ post' = [post EXCEPT !.st = "done",
                !.invocations = PostCallbacks(rev, resp, post.throws)]
  /\ UNCHANGED <<issued, tools, base, aux, ext>>

\* ------------------------------------------------------ the purchase tool
BuyParts == {"first", "second"}

\* common.boolify on an answer the prompt's pattern lets through.
Boolify(answer) == IF answer \in {"yes", "y", "true", "t", "1"} THEN "true" ELSE "false"

\* The final callback of async.auto, called once.
BuyFinal(b, err) == [b EXCEPT !.cb = IF @ = "none" THEN err ELSE @]

\* The receipt task: nothing to print when results.confirm is false; an error
\* when there is no receipt or the receipt is not a Receipt.
ReceiptTask(b, resp) ==
  BuyFinal(b, IF b.confirm # "true" THEN "ok"
              ELSE IF resp = "none" THEN "NoReceipt"
              ELSE IF resp = "receipt" THEN "ok" ELSE "BadReceipt")

\* The purchase task: skipped unless results.confirm, else payswarm.purchase
\* sends the request.
PurchaseTask(b) ==
  IF b.confirm # "true" THEN ReceiptTask([b EXCEPT !.purchase = "done"], "none")
  ELSE [b EXCEPT !.purchase = "run", !.sent = @ + 1]

\* The confirm task calls back with a value: async.auto stores it in results
\* and starts the purchase task unless that has been started before.
Confirmed(b, value) ==
  LET b1 == [b EXCEPT !.confirms = Append(@, value), !.confirm = value]
  IN  IF b.purchase = "idle" THEN PurchaseTask(b1) ELSE b1

\* The confirm task. "first": if(cmd.yes) return callback(null, true); then
\* the prompt. "second": if(cmd.yes) callback(null, true), without return,
\* then the prompt.
ConfirmTask(b) ==
  LET asked == [b EXCEPT !.prompt = "open", !.prompted = @ + 1]
  IN  IF ~b.yes THEN asked
      ELSE IF b.part = "first" THEN Confirmed(b, "true")
      ELSE [Confirmed(b, "true") EXCEPT !.prompt = "open", !.prompted = @ + 1]

BuyOver == buy.prompt # "open" /\ buy.purchase # "run" /\ buy.st # "prepare"

\* purchase(listing, cmd): async.auto starts the config, source and listing
\* tasks.
PurchaseTool(part, yes) ==
  /\ BuyOver
  /\ buy' = [NoBuy EXCEPT !.st = "prepare", !.part = part, !.yes = yes]
  /\ UNCHANGED <<issued, post, urlt, keyreg, base, aux, ext>>

\* The tasks the confirm task depends on have completed, or one has failed.
BuyPrepared(ok) ==
  /\ buy.st = "prepare"
  /\ buy' = IF ok THEN ConfirmTask([buy EXCEPT !.st = "run"])
            ELSE BuyFinal([buy EXCEPT !.st = "run"], "err")
  /\ UNCHANGED <<issued, post, urlt, keyreg, base, aux, ext>>

\* The user answers the prompt, or the prompt fails.
BuyAnswer(answer) ==
  /\ buy.prompt = "open"
  /\ buy' = IF answer = "err"
            THEN BuyFinal([buy EXCEPT !.prompt = "answered",
                                      !.confirms = Append(@, "err")], "err")
            ELSE Confirmed([buy EXCEPT !.prompt = "answered"], Boolify(answer))
  /\ UNCHANGED <<issued, post, urlt, keyreg, base, aux, ext>>

\* payswarm.purchase calls back: with an error, a receipt, something that is
\* no receipt, or nothing.
BuyPurchased(resp) ==
  /\ buy.purchase = "run"
  /\ buy' = IF resp = "err" THEN BuyFinal([buy EXCEPT !.purchase = "fail"], "err")
            ELSE ReceiptTask([buy EXCEPT !.purchase = "done"], resp)
  /\ UNCHANGED <<issued, post, urlt, keyreg, base, aux, ext>>

\* ----------------------------------------------------------- the url tool
\* The id of the public key in the configuration.
ConfiguredKeyId == [hostname |-> "a.example", port |-> "", path |-> "/keys/1"]

Targets ==
  [hostname : {"a.example", "A.example", "b.example"}, port : {"", "8443"},
   path : {"/transactions"}]

\* URL.parse(url).host: the host name in lower case, with the port when the
\* URL names one.
LowerCase(name) == IF name = "A.example" THEN "a.example" ELSE name
UrlHostIgnoresPort(u) == <<LowerCase(u.hostname), "">>

UrlHost(u) == <<LowerCase(u.hostname), u.port>>

\* The second step of the waterfall: the error it calls back with, or "none".
CrossAuthorityCheck(cross, keyId, target) ==
  IF ~cross /\ UrlHost(keyId) # UrlHost(target) /\ ~cross
  THEN "CrossAuthority" ELSE "none"

\* The fourth step of the waterfall: common.request(cmd, url, opts, callback).
UrlRequest(u) == [u EXCEPT !.st = "request", !.sent = Append(@, u.target)]

\* url(url, cmd): the waterfall starts by reading the configuration.
UrlTool(target, cross, data) ==
  /\ urlt.st \in {"none", "done"}
  /\ urlt' = [NoUrlt EXCEPT !.st = "read", !.target = target, !.cross = cross,
                            !.data = data]
  /\ UNCHANGED <<issued, post, buy, keyreg, base, aux, ext>>

\* common.config.read calls back. With a configuration the cross-authority
\* check runs, then the --data document is asked for when --data is @name,
\* else the request is sent.
UrlConfigRead(ok) ==
  /\ urlt.st = "read"
  /\ LET e == CrossAuthorityCheck(urlt.cross, ConfiguredKeyId, urlt.target)
     IN  urlt' = IF ~ok THEN [urlt EXCEPT !.st = "done", !.cb = "err"]
                 ELSE IF e # "none" THEN [urlt EXCEPT !.st = "done", !.cb = e]
                 ELSE IF urlt.data = "@file"
                 THEN [urlt EXCEPT !.st = "data", !.fetched = TRUE]
                 ELSE UrlRequest(urlt)
  /\ UNCHANGED <<issued, post, buy, keyreg, base, aux, ext>>

\* payswarm.getJsonLd on the --data document calls back.
UrlDataRead(ok) ==
  /\ urlt.st = "data"
  /\ urlt' = IF ok THEN UrlRequest(urlt)
             ELSE [urlt EXCEPT !.st = "done", !.cb = "err"]
  /\ UNCHANGED <<issued, post, buy, keyreg, base, aux, ext>>

\* The response arrives, or the request fails.
UrlResponse(ok) ==
  /\ urlt.st = "request"
  /\ urlt' = [urlt EXCEPT !.st = "done", !.cb = IF ok THEN "ok" ELSE "err"]
  /\ UNCHANGED <<issued, post, buy, keyreg, base, aux, ext>>

\* ------------------------------------------------ the key registration
\* The steps a step waits for: the dependencies of the async.auto tasks, and
\* in the waterfall of the example the step before.
KeyRegDeps(flow, t) ==
  IF flow = "example"
  THEN LET i == CHOOSE j \in 1..Len(KeyRegOrder(flow)) : KeyRegOrder(flow)[j] = t
       IN  IF i = 1 THEN {} ELSE {KeyRegOrder(flow)[i - 1]}
  ELSE IF flow = "tool"
  THEN CASE t = "config" -> {}
         [] t = "configCheck" -> {"config"}
         [] t \in {"keys", "endpoints"} -> {"configCheck"}
         [] t = "encryptedMessagePrompt" -> {"keys", "endpoints"}
         [] t = "encryptedMessage" -> {"encryptedMessagePrompt"}
         [] t = "message" -> {"encryptedMessage"}
         [] t = "updateConfig" -> {"message"}
         [] t \in {"writeConfig", "done"} -> {"updateConfig"}
         [] OTHER -> {}
  ELSE CASE t = "readKey" -> {"getConfig"}
         [] t = "getUrl" -> {"readKey", "getWebKeysConfig"}
         [] t = "decrypt" -> {"getUrl"}
         [] t = "updateKey" -> {"decrypt"}
         [] OTHER -> {}

\* The steps that end within the call that starts them, and how: "done", or
\* "threw" for getUrl of part_008, which reads publicKeyPem of cfg.publicKey
\* on a cfg that is never given a key. "" for a step that waits for a
\* callback.
KeyRegAtOnce(k, t) ==
  CASE k.flow = "tool" /\ t = "configCheck" -> IF k.overwrite THEN "done" ELSE ""
    [] k.flow = "tool" /\ t \in {"keys", "encryptedMessagePrompt", "updateConfig",
                                 "done"} -> "done"
    [] k.flow = "example" /\ t = "keys" -> IF k.hasKey THEN "done" ELSE ""
    [] k.flow = "example" /\ t \in {"update", "report"} -> "done"
    [] k.flow = "auto" /\ t = "readKey" -> IF k.hasKey THEN "done" ELSE ""
    [] k.flow = "auto" /\ t = "getUrl" -> "threw"
    [] OTHER -> ""

\* The ways a step that waits for a callback can end.
KeyRegOutcomes(k, t) ==
  CASE k.flow = "tool" /\ t = "configCheck" ->
         IF k.exists THEN {"fail"} ELSE {"done"}
    [] t \in {"encryptedMessage", "decrypt"} /\ k.flow # "auto" ->
         {"done", "fail", "threw"}
    [] k.flow = "example" /\ t = "readConfig" -> {"done"}
    [] k.flow = "example" /\ t = "keys" -> {"done", "hung"}
    [] k.flow = "auto" /\ t = "readKey" -> {"done", "exit"}
    [] OTHER -> {"done", "fail"}

\* What the configuration file holds once a step has ended without error.
KeyRegFile(k, t) ==
  IF t = "writeConfig" \/ t = "updateKey" THEN "registered"
  ELSE IF k.flow \in {"example", "auto"} /\ t \in {"keys", "readKey"} /\ ~k.hasKey
  THEN "pair"
  ELSE k.file

\* The final callback: called once, with the first error or when every step
\* has completed. The tool ends the process on an error (common.error);
\* part_008 reports the completion on success.
KeyRegFinal(k) ==
  IF k.cb # "none" THEN k
  ELSE IF \E t \in KeyRegTasks(k.flow) : k.task[t] = "fail"
  THEN [k EXCEPT !.cb = "err", !.exited = @ \/ k.flow = "tool"]
  ELSE IF k.flow # "example" /\ \A t \in KeyRegTasks(k.flow) : k.task[t] = "done"
  THEN [k EXCEPT !.cb = "ok", !.reported = @ \/ k.flow = "auto"]
  ELSE k

\* A step ends. An exception that no one catches ends the process, as does
\* process.exit().
KeyRegEnded(k, t, outcome) ==
  KeyRegFinal(
    [k EXCEPT !.task[t] = IF outcome = "exit" THEN "fail" ELSE outcome,
              !.exited = @ \/ outcome \in {"threw", "exit"},
              !.file = IF outcome = "done" THEN KeyRegFile(k, t) ELSE @,
              !.reported = @ \/ (outcome = "done" /\ t \in {"done", "report"})])

KeyRegReady(k, t) ==
  /\ t \in KeyRegTasks(k.flow)
  /\ k.task[t] = "idle"
  /\ \A d \in KeyRegDeps(k.flow, t) : k.task[d] = "done"

\* A run of a registration program begins.
KeyRegStart(flow, overwrite, hasKey, exists) ==
  /\ keyreg.flow = "none"
  /\ hasKey => exists
  /\ keyreg' = [NoKeyReg EXCEPT !.flow = flow, !.overwrite = overwrite,
                                !.hasKey = hasKey, !.exists = exists]
  /\ UNCHANGED <<issued, post, buy, urlt, base, aux, ext>>

\* A step whose dependencies have completed starts, the first in the order of
\* the program; a step that does not wait for anything ends at once.
KeyRegStep ==
  /\ ~keyreg.exited
  /\ \E i \in 1..Len(KeyRegOrder(keyreg.flow)) :
       LET t == KeyRegOrder(keyreg.flow)[i]
       IN  /\ KeyRegReady(keyreg, t)
           /\ \A j \in 1..(i - 1) :
                ~KeyRegReady(keyreg, KeyRegOrder(keyreg.flow)[j])
           /\ keyreg' = IF KeyRegAtOnce(keyreg, t) = ""
                        THEN [keyreg EXCEPT !.task[t] = "run"]
                        ELSE KeyRegEnded(keyreg, t, KeyRegAtOnce(keyreg, t))
  /\ UNCHANGED <<issued, post, buy, urlt, base, aux, ext>>

\* What a step waits for calls back, once every step that could start has
\* started.
KeyRegAnswer(t, outcome) ==
  /\ ~keyreg.exited
  /\ t \in KeyRegTasks(keyreg.flow)
  /\ keyreg.task[t] = "run"
  /\ \A u \in KeyRegTasks(keyreg.flow) : ~KeyRegReady(keyreg, u)
  /\ outcome \in KeyRegOutcomes(keyreg, t)
  /\ keyreg' = KeyRegEnded(keyreg, t, outcome)
  /\ UNCHANGED <<issued, post, buy, urlt, base, aux, ext>>

\* ------------------------------------------------------------ api.getJsonLd
\* What the network holds at a URL; it does not change.
Remote(url) == IF url = "url1" THEN "document1" ELSE NoResult

\* The third step of the waterfall in api.getJsonLd, which fetches again when
\* the fetch reported an error.
AfterFetchRetries(w, ok) ==
  LET c == w.call
      result == Remote(c.url)
  IN  IF ~ok
      THEN [w EXCEPT !.call = [c EXCEPT !.fetches = @ + 1]]
      ELSE IF result = NoResult
      THEN [w EXCEPT !.call = [c EXCEPT !.st = "done", !.cb = "NoJsonLd"]]
      ELSE IF c.cache /\ w.hooks
      THEN [w EXCEPT !.call = [c EXCEPT !.st = "store", !.fetched = result]]
      ELSE [w EXCEPT !.call = [c EXCEPT !.st = "done", !.cb = "ok",
                                        !.fetched = result, !.result = result]]

\* The answer of the getJsonLd hook and the third step of the waterfall in
\* api.getJsonLd: an error ends the call; no result is 'No JSON-LD found';
\* with options.cache the result goes to api.cacheJsonLd, which calls the
\* cacheJsonLd hook when it is installed.
AfterFetch(w, ok) ==
  LET c == w.call
      result == Remote(c.url)
  IN  IF ~ok
      THEN [w EXCEPT !.call = [c EXCEPT !.st = "done", !.cb = "err",
                                        !.fetchErr = TRUE]]
      ELSE IF result = NoResult
      THEN [w EXCEPT !.call = [c EXCEPT !.st = "done", !.cb = "NoJsonLd"]]
      ELSE IF c.cache /\ w.hooks
      THEN [w EXCEPT !.call = [c EXCEPT !.st = "store", !.fetched = result]]
      ELSE [w EXCEPT !.call = [c EXCEPT !.st = "done", !.cb = "ok",
                                        !.fetched = result, !.result = result]]

\* The callback api.getPublicKey gives to api.getJsonLd: an error and a key
\* without publicKeyPem are reported, a key with publicKeyPem is not.
PublicKeyCallback(c) ==
  IF c.kind = "getPublicKey" /\ c.st = "done" /\ c.cb = "ok"
  THEN [c EXCEPT !.st = "hung", !.cb = "none", !.result = NoResult]
  ELSE c

Settle(w) == [w EXCEPT !.call = PublicKeyCallback(w.call)]

\* api.addHook('cacheJsonLd', ...) and api.addHook('getCachedJsonLd', ...).
AddCacheHooks ==
  /\ web.call.st \in {"none", "done", "hung"}
  /\ ~web.hooks
  /\ web' = [web EXCEPT !.hooks = TRUE]
  /\ UNCHANGED <<cli, base, aux, regurl, pur, rcpt>>

\* api.getJsonLd(url, {cache: ...}, callback), called by itself or by
\* api.getPublicKey: api.getCachedJsonLd asks the getCachedJsonLd hook when
\* it is installed, and passes null when it is not, so that the second step
\* calls the getJsonLd hook.
GetJsonLd(kind, url, cache) ==
  /\ web.call.st \in {"none", "done", "hung"}
  /\ web' = [web EXCEPT !.call =
       [NoFetchCall EXCEPT !.kind = kind, !.url = url, !.cache = cache,
                           !.st = IF web.hooks THEN "lookup" ELSE "fetch",
                           !.fetches = IF web.hooks THEN 0 ELSE 1]]
  /\ UNCHANGED <<cli, base, aux, regurl, pur, rcpt>>

\* The second step of the waterfall, which takes the hook's answer as it is
\* and does not fetch on a miss.
AfterLookupTrustsMiss(w, ok) ==
  LET c == w.call
      entry == w.cached[c.url]
  IN  IF ~ok
      THEN [w EXCEPT !.call = [c EXCEPT !.st = "done", !.cb = "err",
                                        !.hookErr = TRUE]]
      ELSE [w EXCEPT !.call = [c EXCEPT !.st = "done", !.cb = "ok",
                                        !.hit = TRUE, !.result = entry]]

\* The answer of the getCachedJsonLd hook and the second step of the
\* waterfall: an error ends the call, an entry is the result, and on null the
\* getJsonLd hook is called.
AfterLookup(w, ok) ==
  LET c == w.call
      entry == w.cached[c.url]
  IN  IF ~ok
      THEN [w EXCEPT !.call = [c EXCEPT !.st = "done", !.cb = "err",
                                        !.hookErr = TRUE]]
      ELSE IF entry # NoResult
      THEN [w EXCEPT !.call = [c EXCEPT !.st = "done", !.cb = "ok",
                                        !.hit = TRUE, !.result = entry]]
      ELSE [w EXCEPT !.call = [c EXCEPT !.st = "fetch", !.fetches = @ + 1]]

\* The getCachedJsonLd hook calls back.
CacheLookupAnswer(ok) ==
  /\ web.call.st = "lookup"
  /\ web' = Settle(AfterLookup(web, ok))
  /\ UNCHANGED <<cli, base, aux, regurl, pur, rcpt>>

\* The getJsonLd hook calls back.
FetchAnswer(ok) ==
  /\ web.call.st = "fetch"
  /\ web' = Settle(AfterFetch(web, ok))
  /\ UNCHANGED <<cli, base, aux, regurl, pur, rcpt>>

\* The cacheJsonLd hook calls back: function(err) { callback(err, result); }.
CacheStoreAnswer(ok) ==
  /\ web.call.st = "store"
  /\ LET c == web.call
     IN  web' = Settle(
           [web EXCEPT
              !.cached[c.url] = IF ok THEN c.fetched ELSE @,
              !.call = [c EXCEPT !.st = "done", !.cb = IF ok THEN "ok" ELSE "err",
                                 !.hookErr = ~ok, !.result = c.fetched]])
  /\ UNCHANGED <<cli, base, aux, regurl, pur, rcpt>>

\* The cache drops an entry (the 60*5 seconds given to the hook have passed).
CacheExpires(url) ==
  /\ web.cached[url] # NoResult
  /\ web' = [web EXCEPT !.cached[url] = NoResult]
  /\ UNCHANGED <<cli, base, aux, regurl, pur, rcpt>>

\* ------------------------------------------------ the registration step
MaxPairs == 2

AuthorityIdentity == "authority1"
VendorRegistrationService == "service1"

\* ursa.generatePrivateKey in api.createKeyPair: the next pair.
GeneratePrivateKey(r) == r.made + 1

\* The createNonce hook: creates and stores a nonce no earlier call was given.
MaxNonces == 2
NonceNames == <<"n2", "n3", "n4", "n5">>
CreateNonce(iss) == NonceNames[iss.created + 1]
Created(iss) ==
  [iss EXCEPT !.created = @ + 1, !.fresh = @ \cup {CreateNonce(iss)}]

\* new Date().getTime().toString(16): the reading of the clock in hexadecimal
\* digits, one text for each millisecond.
MaxClock == 1
HexTimes == <<"t0", "t1", "t2", "t3">>
TimeNonce(clock) == HexTimes[clock + 1]

\* The callback of a call has been handed a URL: its response-nonce is noted.
Produced(iss, before, after) ==
  IF before.cb # "ok" /\ after.cb = "ok"
  THEN [iss EXCEPT !.urls = @ \cup {after.url.nonce},
                   !.dup = @ \/ after.url.nonce \in iss.urls]
  ELSE iss

\* The final callback of async.auto in api.getRegisterVendorUrl, which ignores
\* the trustedAuthority task.
UrlSettleWithoutTrust(r) ==
  IF r.cb # "none" THEN r
  ELSE IF \E t \in UrlTasks : r.task[t] = "fail" THEN [r EXCEPT !.cb = "err"]
  ELSE IF \A t \in UrlTasks \ {"trustedAuthority"} : r.task[t] = "done"
  THEN [r EXCEPT !.cb = "ok",
                 !.url = [service |-> VendorRegistrationService,
                          publicKey |-> r.key, nonce |-> r.nonce]]
  ELSE r

\* The final callback of async.auto in api.getRegisterVendorUrl: called once,
\* with the first error, or with the URL when every task has completed.
UrlSettle(r) ==
  IF r.cb # "none" THEN r
  ELSE IF \E t \in UrlTasks : r.task[t] = "fail" THEN [r EXCEPT !.cb = "err"]
  ELSE IF \A t \in UrlTasks : r.task[t] = "done"
  THEN [r EXCEPT !.cb = "ok",
                 !.url = [service |-> VendorRegistrationService,
                          publicKey |-> r.key, nonce |-> r.nonce]]
  ELSE r

UrlIdle == \A t \in UrlTasks : regurl.task[t] # "run"

\* api.createKeyPair called by the vendor on its own: the pair is generated
\* and handed to the storeKeyPair hook, which stores it or fails.
CreateKeyPair(ok) ==
  /\ UrlIdle
  /\ regurl.made < MaxPairs
  /\ regurl' = [NoRegUrl EXCEPT !.made = GeneratePrivateKey(regurl),
                   !.stored = IF ok THEN GeneratePrivateKey(regurl)
                              ELSE regurl.stored,
                   !.trusted = regurl.trusted]
  /\ UNCHANGED <<cli, base, aux, pur, rcpt, web>>

\* api.getRegisterVendorUrl: async.auto starts its four tasks. The
\* getPublicKey task asks the getPublicKey hook unless overwriteKeyPair is
\* set; then it calls api.createKeyPair.
GetRegisterVendorUrl(overwrite) ==
  /\ UrlIdle
  /\ overwrite => regurl.made < MaxPairs
  /\ regurl' = [NoRegUrl EXCEPT
       !.flow = "lib", !.overwrite = overwrite,
       !.stored = regurl.stored, !.had = regurl.stored,
       !.trusted = regurl.trusted,
       !.made = IF overwrite THEN GeneratePrivateKey(regurl) ELSE regurl.made,
       !.gen = overwrite,
       !.pending = IF overwrite THEN GeneratePrivateKey(regurl) ELSE NoPair,
       !.task = [t \in UrlTasks |-> "run"], !.stage = "config"]
  /\ UNCHANGED <<cli, base, aux, pur, rcpt, web>>

\* api.getAuthorityConfig answers the trustedAuthority task
\* (api.addTrustedAuthority), which hands config.authorityIdentity to the
\* storeTrustedAuthority hook.
UrlTrustConfigAnswer(ok) ==
  /\ regurl.task["trustedAuthority"] = "run"
  /\ regurl.stage = "config"
  /\ regurl' = IF ok
               THEN [regurl EXCEPT !.stage = "store", !.storeArg = AuthorityIdentity]
               ELSE UrlSettle([regurl EXCEPT !.task["trustedAuthority"] = "fail",
                                              !.stage = "none"])
  /\ issued' = Produced(issued, regurl, regurl')
  /\ UNCHANGED <<post, tools, base, aux, pur, rcpt, web>>

\* The storeTrustedAuthority hook calls back.
UrlStoreTrustedAnswer(ok) ==
  /\ regurl.task["trustedAuthority"] = "run"
  /\ regurl.stage = "store"
  /\ regurl' = UrlSettle([regurl EXCEPT
       !.task["trustedAuthority"] = IF ok THEN "done" ELSE "fail",
       !.stage = "none",
       !.trusted = IF ok THEN @ \cup {regurl.storeArg} ELSE @])
  /\ issued' = Produced(issued, regurl, regurl')
  /\ UNCHANGED <<post, tools, base, aux, pur, rcpt, web>>

\* api.getAuthorityConfig answers the getRegisterUrl task.
UrlRegisterUrlAnswer(ok) ==
  /\ regurl.task["getRegisterUrl"] = "run"
  /\ regurl' = UrlSettle([regurl EXCEPT
       !.task["getRegisterUrl"] = IF ok THEN "done" ELSE "fail"])
  /\ issued' = Produced(issued, regurl, regurl')
  /\ UNCHANGED <<post, tools, base, aux, pur, rcpt, web>>

\* The getPublicKey task is answered: by the getPublicKey hook with the
\* stored public key, or by the storeKeyPair hook of api.createKeyPair.
UrlPublicKeyAnswer(ok) ==
  /\ regurl.task["getPublicKey"] = "run"
  /\ regurl' = UrlSettle(
       IF ~ok THEN [regurl EXCEPT !.task["getPublicKey"] = "fail"]
       ELSE IF regurl.overwrite
       THEN [regurl EXCEPT !.task["getPublicKey"] = "done",
                           !.stored = regurl.pending,
                           !.key = PublicPem(regurl.pending)]
       ELSE [regurl EXCEPT !.task["getPublicKey"] = "done",
                           !.key = PublicPem(regurl.stored)])
  /\ issued' = Produced(issued, regurl, regurl')
  /\ UNCHANGED <<post, tools, base, aux, pur, rcpt, web>>

\* The createNonce task is answered: hooks.createNonce has created and stored
\* a nonce, or failed.
UrlNonceAnswer(ok) ==
  /\ regurl.task["createNonce"] = "run"
  /\ ok => issued.created < MaxNonces
  /\ regurl' = UrlSettle([regurl EXCEPT
       !.task["createNonce"] = IF ok THEN "done" ELSE "fail",
       !.nonce = IF ok THEN CreateNonce(issued) ELSE @])
  /\ store' = IF ok THEN store \cup {CreateNonce(issued)} ELSE store
  /\ issued' = Produced(IF ok THEN Created(issued) ELSE issued, regurl, regurl')
  /\ UNCHANGED <<post, tools, aux, pur, rcpt, web>>
  /\ UNCHANGED <<rev, doc, pristine, signErr, mutations, calls, accepts>>

\* The key step and the URL step of the tools: register of part_001 (which
\* refuses an existing configuration file unless --overwrite is given) and
\* examples/register-new-key.js. A pair is generated when the configuration
\* has no publicKey; the URL carries config.publicKey.publicKeyPem.
ToolKeysAndUrl(flow, overwriteConfig, configExists, endpointsOk) ==
  /\ UrlIdle
  /\ regurl.stored # NoPair => configExists
  /\ regurl.stored = NoPair => regurl.made < MaxPairs
  /\ LET refused == flow = "tool" /\ ~overwriteConfig /\ configExists
         generate == ~refused /\ regurl.stored = NoPair
         pair == IF generate THEN GeneratePrivateKey(regurl) ELSE regurl.stored
     IN  regurl' = [NoRegUrl EXCEPT
           !.flow = flow, !.had = regurl.stored, !.trusted = regurl.trusted,
           !.made = IF generate THEN pair ELSE regurl.made,
           !.gen = generate,
           !.stored = IF generate /\ flow = "example" THEN pair ELSE regurl.stored,
           !.key = IF refused THEN Undefined ELSE PublicPem(pair),
           !.task = [t \in UrlTasks |->
                       IF t = "getPublicKey" /\ ~refused THEN "done" ELSE "idle"],
           !.cb = IF refused THEN "ConfigExists"
                  ELSE IF endpointsOk THEN "ok" ELSE "err",
           !.url = IF ~refused /\ endpointsOk
                   THEN [service |-> "publicKeyService",
                         publicKey |-> PublicPem(pair),
                         nonce |-> TimeNonce(issued.clock)]
                   ELSE NoUrl]
  /\ issued' = Produced(issued, NoRegUrl, regurl')
  /\ UNCHANGED <<post, tools, base, aux, pur, rcpt, web>>

\* The clock of the machine the tools run on moves on by a millisecond.
ClockTick ==
  /\ issued.clock < MaxClock
  /\ issued' = [issued EXCEPT !.clock = @ + 1]
  /\ UNCHANGED <<post, tools, base, aux, ext>>

\* ------------------------------------------------------- the purchase URL
PaymentService == "service2"

\* The final callback of async.auto in api.getPurchaseUrl: called once, with
\* the first error, or with the URL when both tasks have completed.
PurlSettle(r) ==
  IF r.cb # "none" THEN r
  ELSE IF \E t \in PurlTasks : r.task[t] = "fail" THEN [r EXCEPT !.cb = "err"]
  ELSE IF \A t \in PurlTasks : r.task[t] = "done"
  THEN [r EXCEPT !.cb = "ok",
                 !.url = [service |-> r.service, publicKey |-> Undefined,
                          nonce |-> r.nonce]]
  ELSE r

\* api.getPurchaseUrl: async.auto starts the two tasks.
GetPurchaseUrl ==
  /\ \A t \in PurlTasks : issued.purl.task[t] # "run"
  /\ issued' = [issued EXCEPT
       !.purl = [NoPurl EXCEPT !.task = [t \in PurlTasks |-> "run"]]]
  /\ UNCHANGED <<post, tools, base, aux, ext>>

\* api.getAuthorityConfig answers the getPurchaseUrl task, which takes
\* config.paymentService.
PurlConfigAnswer(ok) ==
  /\ issued.purl.task["getPurchaseUrl"] = "run"
  /\ LET r == PurlSettle([issued.purl EXCEPT
                !.task["getPurchaseUrl"] = IF ok THEN "done" ELSE "fail",
                !.service = IF ok THEN PaymentService ELSE @])
     IN  issued' = [Produced(issued, issued.purl, r) EXCEPT !.purl = r]
  /\ UNCHANGED <<post, tools, base, aux, ext>>

\* The createNonce task of api.getPurchaseUrl is answered by the hook.
PurlNonceAnswer(ok) ==
  /\ issued.purl.task["createNonce"] = "run"
  /\ ok => issued.created < MaxNonces
  /\ LET r == PurlSettle([issued.purl EXCEPT
                !.task["createNonce"] = IF ok THEN "done" ELSE "fail",
                !.nonce = IF ok THEN CreateNonce(issued) ELSE @])
     IN  issued' = [Produced(IF ok THEN Created(issued) ELSE issued,
                             issued.purl, r) EXCEPT !.purl = r]
  /\ store' = IF ok THEN store \cup {CreateNonce(issued)} ELSE store
  /\ UNCHANGED <<post, tools, aux, ext>>
  /\ UNCHANGED <<rev, doc, pristine, signErr, mutations, calls, accepts>>

\* ------------------------------------------------------ registration flows
\* The flows that decode the authority's registration response:
\*   "registerVendor"  api.registerVendor of lib/payswarm-client.js
\*   "tool"            register of the command line tool (part_001)
\*   "example"         keyRegistration.run of examples/register-new-key.js
\* All three run on the "lib" revision of the client.
RegFlows == {"registerVendor", "tool", "example"}

\* The types a document declares and the fields a response carries: "P" is an
\* IdentityPreferences response, "X" an Error response.
TypesOf(content) ==
  CASE content = "P" -> {"IdentityPreferences"}
    [] content = "X" -> {"Error"}
    [] content \in {"R", "Rn", "Rs", "Rp"} -> {"Receipt"}
    [] OTHER -> {}

FieldsOf(content) ==
  IF content = "P"
  THEN [publicKey |-> KeyId, owner |-> "owner1", destination |-> "account1"]
  ELSE [publicKey |-> Undefined, owner |-> Undefined, destination |-> Undefined]

\* The flow starts on the message that arrived and calls decrypt.
RegStart(flow) ==
  /\ reg.st = "none"
  /\ cipher.st = "ready"
  /\ reg' = [NoReg EXCEPT !.flow = flow, !.st = "decrypt"]
  /\ UNCHANGED <<cli, ext, rev, doc, pristine, signErr, mutations, store, calls, accepts,
                 sgn, hsh, cipher, seen>>

\* checkMessage of api.registerVendor: its error, or "none".
CheckMessageError(prefs) ==
  IF "Error" \in TypesOf(prefs.content) THEN "ErrorResponse"
  ELSE IF "IdentityPreferences" \notin TypesOf(prefs.content)
       THEN "InvalidResponse"
       ELSE "none"

\* The fields the tools copy into the configuration (updateConfig).
UpdateConfig(message) ==
  [publicKey |-> FieldsOf(message.content).publicKey,
   owner |-> FieldsOf(message.content).owner,
   source |-> FieldsOf(message.content).destination]

\* The results of async.auto in "p4" api.registerVendor once its tasks are
\* done: the decrypt task stored the message under the key "decrypt".
VendorResults(message) == [decrypt |-> message, decode |-> UndefinedDoc]

\* The final callback of "p4" api.registerVendor:
\* callback(err, err ? null : results.decode).
VendorCallback(err, message) ==
  IF err # "none" THEN NullDoc ELSE VendorResults(message).decode

\* decrypt has called back. The tools update the configuration from the
\* message and start writing it; "lib" api.registerVendor
\* (decodeAuthorityMessage) hands the message to verify; "p4"
\* api.registerVendor, whose decrypt has verified, runs checkMessage and
\* calls back.
RegDecrypted ==
  /\ reg.st = "decrypt"
  /\ cipher.st = "done"
  /\ NoCallActive
  /\ IF rev = "p4"
     THEN /\ LET e == IF cipher.err # "none" THEN cipher.err
                      ELSE CheckMessageError(cipher.msg)
             IN  reg' = [reg EXCEPT !.st = IF e = "none" THEN "done" ELSE "failed",
                                    !.err = e, !.verified = cipher.err = "none",
                                    !.prefs = VendorCallback(e, cipher.msg)]
          /\ UNCHANGED <<doc, calls>>
     ELSE IF cipher.err # "none"
     THEN /\ reg' = [reg EXCEPT !.st = "failed", !.err = cipher.err]
          /\ UNCHANGED <<doc, calls>>
     ELSE IF reg.flow = "registerVendor"
     THEN /\ reg' = [reg EXCEPT !.st = "verify"]
          /\ doc' = cipher.msg
          /\ calls' = [calls EXCEPT ![1] = [IdleCall EXCEPT !.active = TRUE]]
     ELSE /\ reg' = [reg EXCEPT !.st = "write", !.config = UpdateConfig(cipher.msg)]
          /\ UNCHANGED <<doc, calls>>
  /\ UNCHANGED <<cli, ext, rev, pristine, signErr, mutations, store, accepts,
                 sgn, hsh, cipher, seen>>

\* verify has called back (api.registerVendor): on success the decode task
\* completes, checkMessage runs, and the storePublicKeyId hook is called with
\* prefs.publicKey.
RegVerified ==
  /\ reg.st = "verify"
  /\ calls[1].cb # "none"
  /\ LET e == IF calls[1].cb # "ok" THEN calls[1].cb
              ELSE CheckMessageError(cipher.msg)
     IN  reg' = IF e # "none" THEN [reg EXCEPT !.st = "failed", !.err = e]
                ELSE [reg EXCEPT !.st = "write", !.verified = TRUE,
                        !.config = [NoPersist EXCEPT
                           !.publicKey = FieldsOf(cipher.msg.content).publicKey]]
  /\ UNCHANGED <<cli, ext, rev, doc, pristine, signErr, mutations, store, calls, accepts,
                 sgn, hsh, cipher, seen>>

\* The configuration is written (writeConfig), or the storePublicKeyId hook
\* has stored the key id.
RegPersisted ==
  /\ reg.st = "write"
  /\ reg' = [reg EXCEPT !.st = "done", !.persisted = reg.config,
                        !.prefs = IF reg.flow = "registerVendor"
                                  THEN cipher.msg ELSE @]
  /\ UNCHANGED <<cli, ext, rev, doc, pristine, signErr, mutations, store, calls, accepts,
                 sgn, hsh, cipher, seen>>

\* ---------------------------------------------------------- api.getReceipt
\* The responses to a purchase: "R" a Receipt with a full contract, "Rp" one
\* whose contract lacks the license, "Rs" one whose contract is a string, "Rn"
\* one without contract, "X" an Error, "A" any other document.
ReceiptContents == {"R", "Rp", "Rs", "Rn", "X", "A"}

\* receipt.contract: what typeof says of it, and the keys it has.
ContractOf(content) ==
  CASE content = "R" ->
         [typeof |-> "object", keys |-> {"assetAcquirer", "asset", "license"}]
    [] content = "Rp" -> [typeof |-> "object", keys |-> {"assetAcquirer", "asset"}]
    [] content = "Rs" -> [typeof |-> "string", keys |-> {}]
    [] OTHER -> [typeof |-> "undefined", keys |-> {}]

\* checkMessage of api.getReceipt: its error, or "none".
ReceiptMessageError(receipt) ==
  IF "Error" \in TypesOf(receipt.content) THEN "InvalidReceipt"
  ELSE IF "Receipt" \notin TypesOf(receipt.content) THEN "InvalidReceipt"
  ELSE "none"

\* The receipt the validate task reads: results.decode in "lib"; in "p4",
\* whose decode task is named decrypt, results.decryot.
ValidatedReceipt(r, receipt) == IF r = "p4" THEN UndefinedDoc ELSE receipt

\* validate of api.getReceipt: "none", the error it calls back with, or
\* "threw" when the in operator is applied to what is not an object.
ValidateError(r, message) ==
  LET receipt == ValidatedReceipt(r, message)
      contract == ContractOf(receipt.content)
      hasContract == contract.typeof # "undefined"
  IN  IF receipt = UndefinedDoc THEN "threw"
      ELSE IF ~(hasContract \/ contract.typeof # "object") THEN "InvalidReceipt"
      ELSE IF contract.typeof # "object" THEN "threw"
      ELSE IF ~({"assetAcquirer", "asset", "license"} \subseteq contract.keys)
           THEN "InvalidReceipt"
           ELSE "none"

\* checkMessage, validate and the final callback of api.getReceipt, once the
\* decode task has passed the message on.
ReceiptChecked(r, message) ==
  LET e == IF ReceiptMessageError(message) # "none"
           THEN ReceiptMessageError(message)
           ELSE ValidateError(r, message)
  IN  IF e = "threw"
      THEN [st |-> "threw", decoded |-> TRUE, cb |-> "none", receipt |-> NotCalled]
      ELSE IF e # "none"
      THEN [st |-> "done", decoded |-> TRUE, cb |-> e,
            receipt |-> IF r = "p4" THEN NullDoc ELSE UndefinedDoc]
      ELSE [st |-> "done", decoded |-> TRUE, cb |-> "ok", receipt |-> message]

\* api.getReceipt(em, options, callback): the decode task starts.
GetReceipt ==
  /\ rcpt.st = "none"
  /\ cipher.st = "ready"
  /\ rcpt' = [NoRcpt EXCEPT !.st = "decrypt"]
  /\ UNCHANGED <<cli, base, aux, regurl, pur, web>>

\* The decode task calls api.decrypt.
ReceiptDecrypt(o) ==
  /\ rcpt.st = "decrypt"
  /\ Decrypt(RecipientKey, o)

\* decrypt has called back. In "lib" api.decodeAuthorityMessage hands the
\* message to verify; in "p4" decrypt has verified and checkMessage runs.
ReceiptDecrypted ==
  /\ rcpt.st = "decrypt"
  /\ cipher.st = "done"
  /\ NoCallActive
  /\ IF cipher.err # "none"
     THEN /\ rcpt' = [rcpt EXCEPT !.st = "done", !.cb = cipher.err,
                        !.receipt = IF rev = "p4" THEN NullDoc ELSE UndefinedDoc]
          /\ UNCHANGED <<doc, calls>>
     ELSE IF rev = "p4"
     THEN /\ rcpt' = ReceiptChecked(rev, cipher.msg)
          /\ UNCHANGED <<doc, calls>>
     ELSE /\ rcpt' = [rcpt EXCEPT !.st = "verify"]
          /\ doc' = cipher.msg
          /\ calls' = [calls EXCEPT ![1] = [IdleCall EXCEPT !.active = TRUE]]
  /\ UNCHANGED <<cli, rev, pristine, signErr, mutations, store, accepts, aux,
                 regurl, pur, web>>

\* verify has called back ("lib").
ReceiptVerified ==
  /\ rcpt.st = "verify"
  /\ calls[1].cb # "none"
  /\ rcpt' = IF calls[1].cb # "ok"
             THEN [rcpt EXCEPT !.st = "done", !.cb = calls[1].cb,
                               !.receipt = UndefinedDoc]
             ELSE ReceiptChecked(rev, cipher.msg)
  /\ UNCHANGED <<cli, base, aux, regurl, pur, web>>

\* The holder of the document changes it between calls: a business field, the
\* signature's timestamp or type, or a second signed node added to the graph.
Tamper(kind) ==
  /\ NoCallActive
  /\ mutations < MaxMutations
  /\ doc.sig # NoSig
  /\ doc' = CASE kind = "content" ->
                   [doc EXCEPT !.content = IF @ = "A" THEN "B" ELSE "A"]
              [] kind = "created" ->
                   [doc EXCEPT !.sig.created = IF @ = "T2000" THEN "T0800" ELSE "T2000"]
              [] kind = "type" ->
                   [doc EXCEPT !.sig.type = "OtherSignature"]
              [] OTHER ->
                   [doc EXCEPT !.others = 1]
  /\ mutations' = mutations + 1
  /\ pristine' = FALSE
  /\ UNCHANGED <<cli, ext, aux, rev, signErr, store, calls, accepts>>

\* ------------------------------------------------------------ api.verify
\* verify(obj, options, callback): hands the task graph to async.auto.
StartVerify(c, o) ==
  /\ ~calls[c].active
  /\ calls' = [calls EXCEPT ![c] =
       [IdleCall EXCEPT !.active = TRUE,
                        !.opts = IF rev = "lib" THEN DefaultOptions ELSE o]]
  /\ UNCHANGED <<cli, ext, aux, rev, doc, pristine, signErr, mutations, store, accepts>>

\* The caller's callback has run; the call is over.
Return(c) ==
  /\ calls[c].active
  /\ calls[c].cb # "none"
  /\ \A t \in AllTasks : calls[c].st[t] # "run"
  /\ calls' = [calls EXCEPT ![c] = IdleCall]
  /\ UNCHANGED <<cli, ext, aux, rev, doc, pristine, signErr, mutations, store, accepts>>

\* A second signed node of the graph, when the document holds one.
OtherNode(r) ==
  [content |-> "O",
   sig |-> SignatureBlock(r, Null, "T2000", Null,
             RSASign(SignerKey, SignInput(r, Null, "T2000", <<"O">>, Null)))]

\* jsonld.frame(obj, frame): a node of obj matches the frame when it has the
\* frame's property (signature); the matching nodes come back as fresh objects.
\* The embedded signature is kept when it matches the inner frame, which in
\* "p4" asks for type GraphSignature2012 and in "lib" takes any type; a
\* signature that does not match is left out of the framed node.
FrameMatches(r, node) == node.sig # NoSig

EmbedMatches(r, sig) == r = "p4" => sig.type = "GraphSignature2012"

FramedGraphs(r, d) ==
  (IF FrameMatches(r, d)
   THEN <<[content |-> d.content,
           sig |-> IF EmbedMatches(r, d.sig) THEN d.sig ELSE NoSig]>>
   ELSE <<>>)
    \o [i \in 1..d.others |-> OtherNode(r)]

FrameErrorTakesFirst(r, d) ==
  LET graphs == FramedGraphs(r, d)
  IN  CASE Len(graphs) = 0 -> "NoSignedData"
        [] graphs[1].sig = NoSig -> "SignatureNotFound"
        [] r = "lib" /\ graphs[1].sig.type # "GraphSignature2012" -> "UnknownSignatureType"
        [] OTHER -> "none"

\* The frame task: its error, or "none".
FrameError(r, d) ==
  LET graphs == FramedGraphs(r, d)
  IN  CASE Len(graphs) = 0 -> "NoSignedData"
        [] Len(graphs) > 1 -> "MoreThanOneSignedGraph"
        [] graphs[1].sig = NoSig -> "SignatureNotFound"
        [] r = "lib" /\ graphs[1].sig.type # "GraphSignature2012" -> "UnknownSignatureType"
        [] OTHER -> "none"

Frame(c) ==
  /\ Ready(c, "frame")
  /\ calls' = [calls EXCEPT ![c] =
       IF FrameError(rev, doc) # "none"
       THEN Fail(@, "frame", FrameError(rev, doc))
       ELSE [Done(@, "frame") EXCEPT !.frame = FramedGraphs(rev, doc)[1]]]
  /\ UNCHANGED <<cli, ext, aux, rev, doc, pristine, signErr, mutations, store, accepts>>


\* checkNonce task. Without a predicate ("p4": options.checkNonce absent) the
\* task answers at once: valid iff the signature declares no nonce. The "lib"
\* revision asks the checkNonce hook only when the signature declares a nonce.
NonceErrIgnoresValid(err, valid) ==
  IF err THEN "HookError" ELSE "none"

NonceErrMasksHookError(err, valid) ==
  IF err \/ ~valid THEN "NonceInvalid" ELSE "none"

NonceErr(err, valid) ==
  IF err THEN "HookError" ELSE IF ~valid THEN "NonceInvalid" ELSE "none"

AsksNonceHook(r, o, sig) ==
  IF r = "p4" THEN o.checkNonce ELSE sig.nonce # Null

CheckNonce(c) ==
  /\ Ready(c, "checkNonce")
  /\ LET call == calls[c]
         sig == call.frame.sig
     IN  calls' = [calls EXCEPT ![c] =
           IF AsksNonceHook(rev, call.opts, sig)
           THEN [@ EXCEPT !.st["checkNonce"] = "run"]
           ELSE IF rev = "p4" /\ NonceErr(FALSE, sig.nonce = Null) # "none"
                THEN Fail(@, "checkNonce", NonceErr(FALSE, sig.nonce = Null))
                ELSE Done(@, "checkNonce")]
  /\ UNCHANGED <<cli, ext, aux, rev, doc, pristine, signErr, mutations, store, accepts>>

\* The checkNonce hook (createNonce / checkNonce contract): checks a nonce
\* previously created by createNonce and removes it from storage.
NonceHookValid(nonce, s) == nonce \in s
NonceHookStore(nonce, s) == s \ {nonce}

\* The hook calls back: cb(err, valid).
NonceAnswerKeepsStore(c, err) ==
  /\ calls[c].active
  /\ calls[c].st["checkNonce"] = "run"
  /\ LET nonce == calls[c].frame.sig.nonce
         valid == ~err /\ NonceHookValid(nonce, store)
         e == NonceErr(err, valid)
     IN  /\ calls' = [calls EXCEPT ![c] =
              [(IF e # "none" THEN Fail(@, "checkNonce", e) ELSE Done(@, "checkNonce"))
                 EXCEPT !.nonceAns = IF err THEN "err"
                                     ELSE IF valid THEN "true" ELSE "false"]]
         /\ accepts' = IF e # "none" THEN accepts
                       ELSE IF accepts = "none" THEN "once" ELSE "twice"
  /\ UNCHANGED <<cli, ext, aux, rev, doc, pristine, signErr, mutations, store>>

NonceAnswer(c, err) ==
  /\ calls[c].active
  /\ calls[c].st["checkNonce"] = "run"
  /\ LET nonce == calls[c].frame.sig.nonce
         valid == ~err /\ NonceHookValid(nonce, store)
         e == NonceErr(err, valid)
     IN  /\ store' = IF err THEN store ELSE NonceHookStore(nonce, store)
         /\ calls' = [calls EXCEPT ![c] =
              [(IF e # "none" THEN Fail(@, "checkNonce", e) ELSE Done(@, "checkNonce"))
                 EXCEPT !.nonceAns = IF err THEN "err"
                                     ELSE IF valid THEN "true" ELSE "false"]]
         /\ accepts' = IF e # "none" THEN accepts
                       ELSE IF accepts = "none" THEN "once" ELSE "twice"
  /\ UNCHANGED <<cli, ext, aux, rev, doc, pristine, signErr, mutations>>

\* checkDomain task ("p4" only), the twin of checkNonce.
DomainErrIgnoresValid(err, valid) ==
  IF err THEN "HookError" ELSE "none"

DomainErr(err, valid) ==
  IF err THEN "HookError" ELSE IF ~valid THEN "DomainInvalid" ELSE "none"

CheckDomain(c) ==
  /\ Ready(c, "checkDomain")
  /\ LET call == calls[c]
         sig == call.frame.sig
     IN  calls' = [calls EXCEPT ![c] =
           IF call.opts.checkDomain
           THEN [@ EXCEPT !.st["checkDomain"] = "run"]
           ELSE IF DomainErr(FALSE, sig.domain = Null) # "none"
                THEN Fail(@, "checkDomain", DomainErr(FALSE, sig.domain = Null))
                ELSE Done(@, "checkDomain")]
  /\ UNCHANGED <<cli, ext, aux, rev, doc, pristine, signErr, mutations, store, accepts>>

\* options.checkDomain calls back: cb(err, valid).
DomainAnswer(c, ans) ==
  /\ calls[c].active
  /\ calls[c].st["checkDomain"] = "run"
  /\ LET e == DomainErr(ans = "err", ans = "true")
     IN  calls' = [calls EXCEPT ![c] =
           [(IF e # "none" THEN Fail(@, "checkDomain", e) ELSE Done(@, "checkDomain"))
              EXCEPT !.domainAns = ans]]
  /\ UNCHANGED <<cli, ext, aux, rev, doc, pristine, signErr, mutations, store, accepts>>


\* checkDate task. The range test both revisions share:
\* created < (now - delta) || created > (now + delta).
OutOfRange(created, now, delta) ==
  created < (now - delta) \/ created > (now + delta)

\* Methods a JavaScript number has: Date.parse returns a number, and calling a
\* method a number lacks raises TypeError.
NumberMethods == {"toString", "valueOf", "toFixed"}

\* "p4": var created = Date.parse(signature.created).getTime(); the exception is
\* caught and handed to the callback.
CheckDateP4Error(o, sig) ==
  IF ~o.checkTimestamp THEN "none"
  ELSE IF "getTime" \notin NumberMethods THEN "TypeError"
  ELSE IF OutOfRange(DateParse(sig.created), Date_now,
                     o.maxTimestampDelta * MsPerSecond)
       THEN "TimestampOutOfRange"
       ELSE "none"

\* "lib": delta is fixed at 15 minutes.
CheckDateLibError(sig) ==
  IF OutOfRange(DateParse(sig.created), Date_now,
                DefaultMaxTimestampDelta * MsPerSecond)
  THEN "TimestampOutOfRange"
  ELSE "none"

\* The state checkDate leaves its task in when nothing was thrown: "p4" calls
\* callback(); "lib" has no call after the try block.
CheckDatePassState(r) == IF r = "p4" THEN "done" ELSE "hung"

CheckDate(c) ==
  /\ Ready(c, "checkDate")
  /\ LET call == calls[c]
         e == IF rev = "p4" THEN CheckDateP4Error(call.opts, call.frame.sig)
                            ELSE CheckDateLibError(call.frame.sig)
     IN  calls' = [calls EXCEPT ![c] =
           IF e # "none" THEN Fail(@, "checkDate", e)
           ELSE [@ EXCEPT !.st["checkDate"] = CheckDatePassState(rev)]]
  /\ UNCHANGED <<cli, ext, aux, rev, doc, pristine, signErr, mutations, store, accepts>>

\* getPublicKey task: api.getPublicKey(signature.creator, options, callback).
GetPublicKey(c) ==
  /\ Ready(c, "getPublicKey")
  /\ calls' = [calls EXCEPT ![c].st["getPublicKey"] = "run"]
  /\ UNCHANGED <<cli, ext, aux, rev, doc, pristine, signErr, mutations, store, accepts>>

\* api.getPublicKey's handler of the fetch: its error, or "none".
GetPublicKeyError(key) ==
  IF key.fetch = "err" THEN "NetworkError"
  ELSE IF ~key.hasPem THEN "UnknownKeyFormat"
  ELSE "none"

\* What the handler does with a well-formed key: "p4" calls callback(null, key);
\* "lib" ends without calling back.
GetPublicKeyPassState(r) == IF r = "p4" THEN "done" ELSE "hung"

KeyResponse(c, key) ==
  /\ calls[c].active
  /\ calls[c].st["getPublicKey"] = "run"
  /\ LET e == GetPublicKeyError(key)
     IN  calls' = [calls EXCEPT ![c] =
           IF e # "none"
           THEN [Fail(@, "getPublicKey", e) EXCEPT !.fetched = key]
           ELSE [@ EXCEPT !.st["getPublicKey"] = GetPublicKeyPassState(rev),
                          !.fetched = key,
                          !.key = IF GetPublicKeyPassState(rev) = "done"
                                  THEN key ELSE NoKey]]
  /\ UNCHANGED <<cli, ext, aux, rev, doc, pristine, signErr, mutations, store, accepts>>

\* The task that judges the key: checkKey in "p4", verifyPublicKeyOwner in "lib".
TrustTask(r) == IF r = "p4" THEN "checkKey" ELSE "verifyPublicKeyOwner"

\* checkKey task ("p4"): a revoked key fails at once; otherwise options.checkKey
\* or api.checkKey is asked. verifyPublicKeyOwner task ("lib"): asks the
\* isTrustedAuthority hook about key.owner.
CheckKey(c) ==
  /\ Ready(c, TrustTask(rev))
  /\ calls' = [calls EXCEPT ![c] =
       IF rev = "p4" /\ @.key.revoked THEN Fail(@, "checkKey", "KeyRevoked")
       ELSE [@ EXCEPT !.st[TrustTask(rev)] = "run"]]
  /\ UNCHANGED <<cli, ext, aux, rev, doc, pristine, signErr, mutations, store, accepts>>

\* cb(err, trusted) of the checkKey task: an error is passed on, an untrusted
\* key is thrown as an exception, a trusted one completes the task.
CheckKeyCbLenient(call, err, trusted) ==
  IF err # "none" THEN Fail(call, "checkKey", err)
  ELSE Done(call, "checkKey")

CheckKeyCb(call, err, trusted) ==
  IF err # "none" THEN Fail(call, "checkKey", err)
  ELSE IF ~trusted THEN [call EXCEPT !.st["checkKey"] = "threw"]
  ELSE Done(call, "checkKey")

\* function(err, trusted) given to hooks.isTrustedAuthority ("lib").
TrustedAuthorityCb(call, err, trusted) ==
  IF err # "none" THEN Fail(call, "verifyPublicKeyOwner", err)
  ELSE IF ~trusted THEN Fail(call, "verifyPublicKeyOwner", "KeyUntrusted")
  ELSE Done(call, "verifyPublicKeyOwner")

\* The caller's trust predicate answers: options.checkKey(key, options, cb) in
\* "p4", hooks.isTrustedAuthority(key.owner, cb) in "lib".
TrustHookAnswer(c, ans) ==
  /\ calls[c].active
  /\ calls[c].st[TrustTask(rev)] = "run"
  /\ rev = "p4" => calls[c].opts.checkKey
  /\ LET err == IF ans = "err" THEN "HookError" ELSE "none"
     IN  calls' = [calls EXCEPT ![c] =
           [(IF rev = "p4" THEN CheckKeyCb(@, err, ans = "true")
             ELSE TrustedAuthorityCb(@, err, ans = "true"))
              EXCEPT !.trustAns = ans]]
  /\ UNCHANGED <<cli, ext, aux, rev, doc, pristine, signErr, mutations, store, accepts>>

\* What fetching and framing the key owner's document can return: a fetch
\* error, or the owner nodes with the key ids each lists.
OwnerResponses ==
  {[fetch |-> "err", owners |-> <<>>],
   [fetch |-> "ok", owners |-> <<>>],
   [fetch |-> "ok", owners |-> <<{KeyId}>>],
   [fetch |-> "ok", owners |-> <<{"key2"}>>]}

\* The loop test of api.checkKey, i < owners, compares a number with the array:
\* an empty array converts to 0, an array of objects to NaN, and i < NaN is false.
LoopTest(i, owners) == IF Len(owners) = 0 THEN i < 0 ELSE FALSE

\* for(var i = 0; i < owners; ++i) if(hasValue(owners[i], 'publicKey', key.id)):
\* the index of the owner found (from 1), or 0 for none.
RECURSIVE FindOwner(_, _)
FindOwner(i, owners) ==
  IF ~LoopTest(i, owners) THEN 0
  ELSE IF KeyId \in owners[i + 1] THEN i + 1
  ELSE FindOwner(i + 1, owners)

\* api.checkKey(key, options, callback): the (err, trusted) it calls back with,
\* or "hung" when the checkOwner step never calls back.
ApiCheckKeyResult(o, resp, ownerAns) ==
  IF resp.fetch = "err" THEN [out |-> "cb", err |-> "NetworkError"]
  ELSE IF FindOwner(0, resp.owners) = 0 THEN [out |-> "cb", err |-> "KeyNotOwned"]
  ELSE IF ~o.checkKeyOwner THEN [out |-> "cb", err |-> "none"]
  ELSE IF ownerAns = "err" THEN [out |-> "cb", err |-> "HookError"]
  ELSE IF ownerAns = "false" THEN [out |-> "cb", err |-> "OwnerUntrusted"]
  ELSE [out |-> "hung", err |-> "none"]

ApiCheckKeyAnswer(c, resp, ownerAns) ==
  /\ calls[c].active
  /\ rev = "p4"
  /\ calls[c].st["checkKey"] = "run"
  /\ ~calls[c].opts.checkKey
  /\ LET r == ApiCheckKeyResult(calls[c].opts, resp, ownerAns)
     IN  calls' = [calls EXCEPT ![c] =
           [(IF r.out = "hung" THEN [@ EXCEPT !.st["checkKey"] = "hung"]
             ELSE CheckKeyCb(@, r.err, r.err = "none"))
              EXCEPT !.trustAns = IF r.out = "cb" /\ r.err = "none"
                                  THEN "true" ELSE "false",
                     !.ownerDoc = IF resp.fetch = "err" THEN "err"
                                  ELSE IF \E i \in 1..Len(resp.owners) :
                                            KeyId \in resp.owners[i]
                                       THEN "listed" ELSE "unlisted"]]
  /\ UNCHANGED <<cli, ext, aux, rev, doc, pristine, signErr, mutations, store, accepts>>

\* normalize task: removes the signature property from the framed object and
\* canonicalizes what is left.
StripSignature(obj) == [obj EXCEPT !.sig = NoSig]
NormalizeInPlace(c) ==
  /\ Ready(c, "normalize")
  /\ doc' = StripSignature(doc)
  /\ calls' = [calls EXCEPT ![c] =
       [Done(@, "normalize") EXCEPT
          !.norm = [data |-> Normalize(StripSignature(calls[c].frame)),
                    signature |-> calls[c].frame.sig]]]
  /\ UNCHANGED <<cli, ext, aux, rev, pristine, signErr, mutations, store, accepts>>

NormalizeTask(c) ==
  /\ Ready(c, "normalize")
  /\ LET result == calls[c].frame
         signature == result.sig
     IN  calls' = [calls EXCEPT ![c] =
           [Done(@, "normalize") EXCEPT
              !.frame = StripSignature(result),
              !.norm = [data |-> Normalize(StripSignature(result)),
                        signature |-> signature]]]
  /\ UNCHANGED <<cli, ext, aux, rev, doc, pristine, signErr, mutations, store, accepts>>

\* The bytes verifySignature feeds to the verifier.
VerifyInput(r, signature, data) ==
  (IF signature.nonce # Null THEN <<signature.nonce>> ELSE <<>>)
    \o <<signature.created>> \o data
    \o (IF r = "p4" /\ signature.domain # Null THEN <<signature.domain>> ELSE <<>>)

\* verifySignature task: its error, or "none". The "lib" revision tests the
\* key's revoked field here.
VerifySignatureError(r, key, norm) ==
  IF r = "lib" /\ key.revoked THEN "KeyRevoked"
  ELSE IF ~RSAVerify(key.pem, norm.signature.signatureValue,
                     VerifyInput(r, norm.signature, norm.data))
       THEN "SignatureInvalid"
       ELSE "none"

VerifySignature(c) ==
  /\ Ready(c, "verifySignature")
  /\ LET e == VerifySignatureError(rev, calls[c].key, calls[c].norm)
     IN  calls' = [calls EXCEPT ![c] =
           IF e # "none" THEN Fail(@, "verifySignature", e)
           ELSE Done(@, "verifySignature")]
  /\ UNCHANGED <<cli, ext, aux, rev, doc, pristine, signErr, mutations, store, accepts>>

\* async.auto: when no task remains, the final callback gets (null, results).
AllDone(call) == \A t \in Tasks(rev) : call.st[t] = "done"

Finish(c) ==
  /\ calls[c].active
  /\ AllDone(calls[c])
  /\ calls[c].cb = "none"
  /\ calls' = [calls EXCEPT ![c].cb = "ok"]
  /\ UNCHANGED <<cli, ext, aux, rev, doc, pristine, signErr, mutations, store, accepts>>

\* ------------------------------------------------------------ specification
Answers == {"true", "false", "err"}

EnvNext ==
  \/ \E n \in Nonces \cup {Null}, d \in DateStrings \cup {Null},
        dom \in Domains \cup {Null} : Sign(n, d, dom)
  \/ \E k \in {"content", "created", "type", "node"} : Tamper(k)

\* The steps of one verify call; keyDocs and ownerDocs are what the network may
\* return for the key and for its owner.
VerifyTasks(c, keyDocs, ownerDocs) ==
  \/ Frame(c)
  \/ CheckNonce(c)
  \/ \E err \in BOOLEAN : NonceAnswer(c, err)
  \/ CheckDomain(c)
  \/ \E ans \in Answers : DomainAnswer(c, ans)
  \/ CheckDate(c)
  \/ GetPublicKey(c)
  \/ \E key \in keyDocs : KeyResponse(c, key)
  \/ CheckKey(c)
  \/ \E ans \in Answers : TrustHookAnswer(c, ans)
  \/ \E resp \in ownerDocs, ans \in Answers : ApiCheckKeyAnswer(c, resp, ans)
  \/ NormalizeTask(c)
  \/ VerifySignature(c)
  \/ Finish(c)

VerifySteps(c, keyDocs, ownerDocs) ==
  \/ VerifyTasks(c, keyDocs, ownerDocs)
  \/ Return(c)

\* One verify call at a time, any options, any document.
Next ==
  \/ EnvNext
  \/ \E o \in VerifyOptions : StartVerify(1, o)
  \/ VerifySteps(1, KeyDocs, OwnerResponses)

Spec == Init /\ [][Next]_vars

\* Two verify calls in flight at once on a document signed with a nonce, both
\* given a checkNonce predicate backed by the same nonce store; the signer's key
\* and its owner's document are served as published.
ConcOptions ==
  {[DefaultOptions EXCEPT !.checkNonce = TRUE],
   [DefaultOptions EXCEPT !.checkNonce = TRUE, !.checkDomain = TRUE,
                          !.checkKey = TRUE, !.checkTimestamp = FALSE]}

NextConc ==
  \/ \E n \in Nonces, dom \in Domains \cup {Null} : Sign(n, Null, dom)
  \/ \E c \in CallIds :
       \/ \E o \in ConcOptions : StartVerify(c, o)
       \/ VerifySteps(c, {GoodKey}, {[fetch |-> "ok", owners |-> <<{KeyId}>>]})

SpecConc == Init /\ [][NextConc]_vars

\* api.sign alone, called with any options on an unsigned document.
SignOptions ==
  [key : {SignerKey, "notpem", Undefined}, keyId : {KeyId, Undefined},
   nonce : {Undefined, "", "n1"}, date : {Undefined, "T0800"},
   domain : {Undefined, "", "d1"}]

NextSign == \E options \in SignOptions : SignWith(options)

SpecSign == Init /\ [][NextSign]_vars

\* Sign calls one after the other on the same document.
NextResign ==
  \/ \E options \in SignOptions : SignWith(options)
  \/ \E options \in SignOptions : SignAgain(options)

SpecResign == Init /\ [][NextResign]_vars

\* api.hash alone. The objects hashed: signed or not, with or without
\* terms, their keys written in one order or the other.
HashObjects ==
  {[content |-> c, sig |-> sg, order |-> k] :
     c \in {"A", "B", "E"},
     sg \in {NoSig} \cup
            {SignOutcome("p4", [NoDoc EXCEPT !.content = "A"],
                         [key |-> SignerKey, keyId |-> KeyId, nonce |-> n,
                          date |-> "T0800", domain |-> Undefined]).doc.sig :
               n \in {Undefined, "n1"}},
     k \in {"ab", "ba"}}

NextHash == \E a \in HashObjects, b \in HashObjects : Hash(a, b)

SpecHash == Init /\ [][NextHash]_vars

\* api.decrypt on the messages of the authority. The verify call "p4" decrypt
\* makes returns only after decrypt had its callback.
CipherKeys == {RecipientKey, "R2"}

CipherVerifyOptions ==
  {DefaultOptions,
   [DefaultOptions EXCEPT !.checkNonce = TRUE, !.checkDomain = TRUE,
                          !.checkKey = TRUE, !.checkTimestamp = FALSE]}

\* The document is signed before the authority encrypts it.
SignPlain(nonce, domain) ==
  /\ cipher.st = "none"
  /\ Sign(nonce, Null, domain)

\* The verify call decrypt made is over once decrypt had its callback.
ReturnDecrypted ==
  /\ cipher.st # "verifying"
  /\ Return(1)

NextCipher ==
  \/ \E n \in Nonces \cup {Null}, dom \in Domains \cup {Null} : SignPlain(n, dom)
  \/ \E json \in BOOLEAN, k \in CipherKeys : Encrypt(json, PublicOf(k))
  \/ \E kind \in TamperKinds : TamperEnc(kind)
  \/ \E key \in CipherKeys, o \in CipherVerifyOptions : Decrypt(key, o)
  \/ DecryptVerified
  \/ VerifyTasks(1, {GoodKey}, {[fetch |-> "ok", owners |-> <<{KeyId}>>]})
  \/ ReturnDecrypted

SpecCipher == Init /\ [][NextCipher]_vars

\* api.registerVendor of both revisions on the responses of the authority.
\* In "lib" verify never succeeds, so the storePublicKeyId hook is not reached.
RegVendorStart ==
  /\ reg.st = "none"
  /\ RegStart("registerVendor")

RegVendorDecrypt(o) ==
  /\ reg.st = "decrypt"
  /\ Decrypt(RecipientKey, o)

ReturnVendor ==
  /\ cipher.st # "verifying"
  /\ reg.st # "verify"
  /\ Return(1)

InitVendor == InitWith(Revs, {"A", "P", "X"})

NextVendor ==
  \/ \E n \in Nonces \cup {Null} : SignPlain(n, Null)
  \/ \E k \in CipherKeys : Encrypt(TRUE, PublicOf(k))
  \/ RegVendorStart
  \/ \E o \in CipherVerifyOptions : RegVendorDecrypt(o)
  \/ DecryptVerified
  \/ RegDecrypted
  \/ VerifyTasks(1, {GoodKey}, {[fetch |-> "ok", owners |-> <<{KeyId}>>]})
  \/ RegVerified
  \/ ReturnVendor

SpecVendor == InitVendor /\ [][NextVendor]_vars

\* api.getJsonLd and api.getPublicKey, with and without the cache hooks.
NextWeb ==
  \/ AddCacheHooks
  \/ \E kind \in {"getJsonLd", "getPublicKey"}, url \in Urls, cache \in BOOLEAN :
        GetJsonLd(kind, url, cache)
  \/ \E ok \in BOOLEAN : CacheLookupAnswer(ok)
  \/ \E ok \in BOOLEAN : FetchAnswer(ok)
  \/ \E ok \in BOOLEAN : CacheStoreAnswer(ok)
  \/ \E url \in Urls : CacheExpires(url)

SpecWeb == Init /\ [][NextWeb]_vars

\* api.purchase on the graphs a caller can hand it.
NextPurchase ==
  \/ \E graph \in SUBSET ListingNodes, options \in PurchaseOptions :
        Purchase(graph, options)
  \/ \E frameErr \in BOOLEAN : PurchaseFramed(frameErr)
  \/ PurchaseHashed
  \/ PurchaseSigned
  \/ \E ok \in BOOLEAN : PurchasePosted(ok)

SpecPurchase == Init /\ [][NextPurchase]_vars

\* The calls that go to the network: api.purchase, api.getJsonLd and
\* api.getPublicKey.
NextNet == NextPurchase \/ NextWeb

SpecNet == Init /\ [][NextNet]_vars

\* The registration step of the library and of the tools, on a storage that
\* holds a key pair or none.
NextUrl ==
  \/ \E ok \in BOOLEAN : CreateKeyPair(ok)
  \/ \E overwrite \in BOOLEAN : GetRegisterVendorUrl(overwrite)
  \/ \E ok \in BOOLEAN : UrlTrustConfigAnswer(ok)
  \/ \E ok \in BOOLEAN : UrlStoreTrustedAnswer(ok)
  \/ \E ok \in BOOLEAN : UrlRegisterUrlAnswer(ok)
  \/ \E ok \in BOOLEAN : UrlPublicKeyAnswer(ok)
  \/ \E ok \in BOOLEAN : UrlNonceAnswer(ok)
  \/ \E flow \in {"tool", "example"}, o \in BOOLEAN, e \in BOOLEAN, ok \in BOOLEAN :
        ToolKeysAndUrl(flow, o, e, ok)

SpecUrl == Init /\ [][NextUrl]_vars

\* The key registration programs.
NextKeyReg ==
  \/ \E flow \in KeyRegFlows, overwrite \in BOOLEAN, hasKey \in BOOLEAN,
        exists \in BOOLEAN : KeyRegStart(flow, overwrite, hasKey, exists)
  \/ KeyRegStep
  \/ \E t \in KeyRegAllTasks, outcome \in {"done", "fail", "threw", "hung", "exit"} :
        KeyRegAnswer(t, outcome)

SpecKeyReg == Init /\ [][NextKeyReg]_vars

\* The url tool.
NextUrlTool ==
  \/ \E target \in Targets, cross \in BOOLEAN, data \in {"none", "inline", "@file"} :
        UrlTool(target, cross, data)
  \/ \E ok \in BOOLEAN : UrlConfigRead(ok)
  \/ \E ok \in BOOLEAN : UrlDataRead(ok)
  \/ \E ok \in BOOLEAN : UrlResponse(ok)

SpecUrlTool == Init /\ [][NextUrlTool]_vars

\* The purchase tool.
NextBuy ==
  \/ \E part \in BuyParts, yes \in BOOLEAN : PurchaseTool(part, yes)
  \/ \E ok \in BOOLEAN : BuyPrepared(ok)
  \/ \E answer \in {"yes", "no", "err"} : BuyAnswer(answer)
  \/ \E resp \in {"err", "receipt", "other", "none"} : BuyPurchased(resp)

SpecBuy == Init /\ [][NextBuy]_vars

\* api.postJsonLd alone.
NextPost ==
  \/ \E url \in Urls, obj \in PostObjects, options \in PostOptions,
        throws \in BOOLEAN :
        PostJsonLd(url, obj, options, throws)
  \/ \E resp \in PostResponses : PostResponse(resp)

SpecPost == Init /\ [][NextPost]_vars

\* The calls that hand out a URL with a response-nonce: the registration URL
\* of the library and of the tools, and the purchase URL.
NextNonce ==
  \/ GetRegisterVendorUrl(FALSE)
  \/ \E ok \in BOOLEAN : UrlTrustConfigAnswer(ok)
  \/ \E ok \in BOOLEAN : UrlStoreTrustedAnswer(ok)
  \/ \E ok \in BOOLEAN : UrlRegisterUrlAnswer(ok)
  \/ \E ok \in BOOLEAN : UrlPublicKeyAnswer(ok)
  \/ \E ok \in BOOLEAN : UrlNonceAnswer(ok)
  \/ \E ok \in BOOLEAN : ToolKeysAndUrl("tool", TRUE, regurl.stored # NoPair, ok)
  \/ ClockTick
  \/ GetPurchaseUrl
  \/ \E ok \in BOOLEAN : PurlConfigAnswer(ok)
  \/ \E ok \in BOOLEAN : PurlNonceAnswer(ok)

InitNonce == InitWith({"lib"}, {"A"})

SpecNonce == InitNonce /\ [][NextNonce]_vars

\* The verify call of the decode task is over once getReceipt went on.
ReturnReceipt ==
  /\ cipher.st # "verifying"
  /\ rcpt.st # "verify"
  /\ Return(1)

\* api.getReceipt of both revisions on the responses to a purchase.
InitReceipt == InitWith(Revs, ReceiptContents)

NextReceipt ==
  \/ \E n \in Nonces \cup {Null} : SignPlain(n, Null)
  \/ \E k \in CipherKeys : Encrypt(TRUE, PublicOf(k))
  \/ GetReceipt
  \/ \E o \in CipherVerifyOptions : ReceiptDecrypt(o)
  \/ DecryptVerified
  \/ ReceiptDecrypted
  \/ VerifyTasks(1, {GoodKey}, {[fetch |-> "ok", owners |-> <<{KeyId}>>]})
  \/ ReceiptVerified
  \/ ReturnReceipt

SpecReceipt == InitReceipt /\ [][NextReceipt]_vars

\* The flow's call of decrypt, with the private key of the configuration.
RegDecrypt ==
  /\ reg.st = "decrypt"
  /\ Decrypt(RecipientKey, DefaultOptions)

\* The verify call the flow made is over once the flow had its callback.
ReturnDecoded ==
  /\ reg.st # "verify"
  /\ Return(1)

\* The registration flows on the responses of the authority, signed or not,
\* of any type. The verify tasks are those the "lib" revision gets to.
InitReg == InitWith({"lib"}, {"A", "P", "X"})

NextReg ==
  \/ \E n \in Nonces \cup {Null} : SignPlain(n, Null)
  \/ \E k \in CipherKeys : Encrypt(TRUE, PublicOf(k))
  \/ \E kind \in TamperKinds : TamperEnc(kind)
  \/ \E flow \in RegFlows : RegStart(flow)
  \/ RegDecrypt
  \/ RegDecrypted
  \/ Frame(1)
  \/ CheckNonce(1)
  \/ \E err \in BOOLEAN : NonceAnswer(1, err)
  \/ CheckDate(1)
  \/ GetPublicKey(1)
  \/ \E key \in KeyDocs : KeyResponse(1, key)
  \/ RegVerified
  \/ RegPersisted
  \/ ReturnDecoded

SpecReg == InitReg /\ [][NextReg]_vars

\* One call at a time under the scheduling Node guarantees: a task async.auto
\* has made ready is run, a callback that is due is called, and every hook and
\* every fetch the call is waiting for answers.
SpecFair == Spec /\ WF_vars(VerifySteps(1, KeyDocs, OwnerResponses))


\* ============================================================== properties
\* A call on which nothing more can happen: no task is running, none can be
\* started, and the final callback is not due.
Quiescent(c) ==
  /\ calls[c].active
  /\ \A t \in Tasks(rev) : calls[c].st[t] # "run" /\ ~DepsDone(c, t)
  /\ ~(AllDone(calls[c]) /\ calls[c].cb = "none")

\* The signature block the call took from its framed copy.
CallSig(c) ==
  IF calls[c].norm.signature # NoSig THEN calls[c].norm.signature
  ELSE calls[c].frame.sig

\* sig is what sign produced over a document of the given content.
SignedOver(sig, content) ==
  /\ sig.type = "GraphSignature2012"
  /\ sig.signatureValue =
       RSASign(SignerKey,
               SignInput(rev, sig.nonce, sig.created, ContentQuads(content), sig.domain))

\* created lies in [now - delta, now + delta], delta in seconds.
InWindow(created, deltaSec) ==
  /\ Date_now - deltaSec * MsPerSecond <= DateParse(created)
  /\ DateParse(created) <= Date_now + deltaSec * MsPerSecond

\* The environment of call c was as the claims about valid messages assume:
\* the key document was served with the signer's PEM key, the trust policy (or
\* the owner's document) vouches for the key, a declared nonce or domain was
\* accepted by the caller's predicate, and the signature is current.
KeyServed(c) ==
  /\ calls[c].fetched.fetch = "ok"
  /\ calls[c].fetched.hasPem
  /\ calls[c].fetched.pem = SignerKey

PolicyAccepts(c) ==
  /\ calls[c].trustAns \in {"unasked", "true"} \/ calls[c].ownerDoc = "listed"
  /\ calls[c].ownerDoc \in {"unasked", "listed"}
  /\ calls[c].nonceAns \in {"unasked", "true"}
  /\ calls[c].domainAns \in {"unasked", "true"}
  /\ CallSig(c).nonce # Null => calls[c].nonceAns = "true"
  /\ CallSig(c).domain # Null => calls[c].domainAns = "true"

Current(c) == InWindow(CallSig(c).created, DefaultMaxTimestampDelta)

\* C1: verify of the document sign returned reports success, when the key is
\* served and not revoked, the trust policy accepts its owner, a declared
\* nonce or domain is accepted, and the signature timestamp is current.
C1_SignThenVerifySucceeds ==
  \A c \in CallIds :
    ( /\ Quiescent(c)
      /\ pristine
      /\ KeyServed(c) /\ ~calls[c].fetched.revoked
      /\ PolicyAccepts(c)
      /\ Current(c) )
    => calls[c].cb = "ok"

\* C2: verify of a signed document one of whose fields was changed after
\* signing fails with SignatureInvalid (the environment being as for C1).
C2_ChangedFieldFailsSignatureInvalid ==
  \A c \in CallIds :
    ( /\ Quiescent(c)
      /\ calls[c].frame.content = "B"
      /\ SignedOver(CallSig(c), "A")
      /\ KeyServed(c) /\ ~calls[c].fetched.revoked
      /\ PolicyAccepts(c)
      /\ Current(c) )
    => calls[c].cb = "SignatureInvalid"

\* C3: of the verify calls that present the same nonce to the same nonce
\* store, at most one passes the nonce check.
C3_NonceAcceptedAtMostOnce == accepts # "twice"

C3_Witness ==
  /\ accepts = "once"
  /\ calls[1].st["checkNonce"] = "done" /\ calls[1].nonceAns = "true"
  /\ calls[2].st["checkNonce"] = "fail" /\ calls[2].nonceAns = "false"
  /\ calls[1].frame.sig.nonce = calls[2].frame.sig.nonce

\* C4: verify reports success only if the nonce check passed, the domain check
\* passed, created was inside the window (timestamp checking on), the key was
\* resolved with a PEM public key, the key is not revoked, the trust policy
\* accepted it, and the RSA signature verifies over the canonical form of the
\* signed node without its signature.
NonceCheckPassed(c) ==
  IF AsksNonceHook(rev, calls[c].opts, CallSig(c))
  THEN calls[c].nonceAns = "true"
  ELSE CallSig(c).nonce = Null

DomainCheckPassed(c) ==
  IF calls[c].opts.checkDomain THEN calls[c].domainAns = "true"
  ELSE CallSig(c).domain = Null

SignedNodes(d) ==
  (IF d.sig # NoSig THEN <<[content |-> d.content, sig |-> d.sig]>> ELSE <<>>)
    \o [i \in 1..d.others |-> OtherNode(rev)]

C4_SuccessOnlyIfAllChecksHeld ==
  \A c \in CallIds :
    calls[c].cb = "ok" =>
      /\ NonceCheckPassed(c)
      /\ DomainCheckPassed(c)
      /\ calls[c].opts.checkTimestamp =>
           InWindow(CallSig(c).created, calls[c].opts.maxTimestampDelta)
      /\ calls[c].fetched.fetch = "ok" /\ calls[c].fetched.hasPem
      /\ ~calls[c].fetched.revoked
      /\ calls[c].trustAns = "true"
      /\ \E i \in 1..Len(SignedNodes(doc)) :
           LET node == SignedNodes(doc)[i]
           IN  /\ node.sig = CallSig(c)
               /\ node.sig.signatureValue.key = calls[c].fetched.pem
               /\ node.sig.signatureValue.input =
                    (IF node.sig.nonce # Null THEN <<node.sig.nonce>> ELSE <<>>)
                      \o <<node.sig.created>> \o ContentQuads(node.content)
                      \o (IF node.sig.domain # Null THEN <<node.sig.domain>> ELSE <<>>)

C4_Witness ==
  \E c \in CallIds :
    /\ calls[c].cb = "ok"
    /\ calls[c].st["verifySignature"] = "done"
    /\ calls[c].opts.checkKey /\ calls[c].trustAns = "true"

\* C5: verify of a document whose resolved key carries a revoked field fails
\* with KeyRevoked (the environment otherwise being as for C1).
C5_RevokedKeyFailsKeyRevoked ==
  \A c \in CallIds :
    ( /\ Quiescent(c)
      /\ KeyServed(c) /\ calls[c].fetched.revoked
      /\ PolicyAccepts(c)
      /\ Current(c) )
    => calls[c].cb = "KeyRevoked"

\* C6: with timestamp checking on, the timestamp step passes exactly when
\* now - delta <= created <= now + delta, delta being maxTimestampDelta.
C6_TimestampStepIffInWindow ==
  \A c \in CallIds :
    ( /\ calls[c].active
      /\ calls[c].opts.checkTimestamp
      /\ calls[c].st["checkDate"] \in {"done", "fail", "hung"} )
    => /\ calls[c].st["checkDate"] = "done"
            <=> InWindow(CallSig(c).created, calls[c].opts.maxTimestampDelta)
       /\ calls[c].st["checkDate"] = "fail"
            => calls[c].err["checkDate"] = "TimestampOutOfRange"


\* C7 as claimed: without a checkNonce predicate a signature that declares a
\* nonce fails the nonce step with NonceInvalid and one without a nonce passes
\* it; with a predicate, a false or erroring answer fails the step with
\* NonceInvalid.
C7_NonceStepAsClaimed ==
  \A c \in CallIds :
    (calls[c].active /\ calls[c].st["checkNonce"] \in {"done", "fail"}) =>
      IF calls[c].nonceAns = "unasked"
      THEN IF CallSig(c).nonce # Null
           THEN /\ calls[c].st["checkNonce"] = "fail"
                /\ calls[c].err["checkNonce"] = "NonceInvalid"
           ELSE calls[c].st["checkNonce"] = "done"
      ELSE calls[c].nonceAns \in {"false", "err"} =>
             /\ calls[c].st["checkNonce"] = "fail"
             /\ calls[c].err["checkNonce"] = "NonceInvalid"

\* C7 amended: as claimed, except that an erroring predicate fails the step
\* with the predicate's own error; the predicate is asked exactly when one is
\* supplied ("lib": when the signature declares a nonce, of the checkNonce
\* hook), it is asked about the signature's nonce, and a call whose nonce step
\* failed never reports success.
C7_NonceStep ==
  \A c \in CallIds :
    (calls[c].active /\ calls[c].st["checkNonce"] \in {"done", "fail"}) =>
      /\ calls[c].nonceAns # "unasked" <=>
           IF rev = "p4" THEN calls[c].opts.checkNonce ELSE CallSig(c).nonce # Null
      /\ calls[c].nonceAns = "unasked" =>
           IF CallSig(c).nonce # Null
           THEN /\ calls[c].st["checkNonce"] = "fail"
                /\ calls[c].err["checkNonce"] = "NonceInvalid"
           ELSE calls[c].st["checkNonce"] = "done"
      /\ calls[c].nonceAns = "false" =>
           /\ calls[c].st["checkNonce"] = "fail"
           /\ calls[c].err["checkNonce"] = "NonceInvalid"
      /\ calls[c].nonceAns = "err" =>
           /\ calls[c].st["checkNonce"] = "fail"
           /\ calls[c].err["checkNonce"] = "HookError"
      /\ calls[c].nonceAns = "true" =>
           /\ calls[c].st["checkNonce"] = "done"
           /\ CallSig(c).nonce \in Nonces
      /\ calls[c].st["checkNonce"] = "fail" => calls[c].cb \notin {"none", "ok"}

C7_Witness ==
  \E c \in CallIds :
    /\ rev = "p4" /\ calls[c].opts.checkNonce
    /\ calls[c].nonceAns = "err"
    /\ calls[c].err["checkNonce"] = "HookError"
    /\ calls[c].cb = "HookError"

\* C8 as claimed: without a checkDomain predicate a signature that declares a
\* domain fails the domain step with DomainInvalid and one without passes;
\* with a predicate, a false or erroring answer fails the step with
\* DomainInvalid.
C8_DomainStepAsClaimed ==
  \A c \in CallIds :
    (calls[c].active /\ calls[c].st["checkDomain"] \in {"done", "fail"}) =>
      IF calls[c].domainAns = "unasked"
      THEN IF CallSig(c).domain # Null
           THEN /\ calls[c].st["checkDomain"] = "fail"
                /\ calls[c].err["checkDomain"] = "DomainInvalid"
           ELSE calls[c].st["checkDomain"] = "done"
      ELSE calls[c].domainAns \in {"false", "err"} =>
             /\ calls[c].st["checkDomain"] = "fail"
             /\ calls[c].err["checkDomain"] = "DomainInvalid"

\* C8 amended: as claimed, except that an erroring predicate fails the step
\* with the predicate's own error; the predicate decides exactly when it is
\* supplied, and a call whose domain step failed never reports success.
C8_DomainStep ==
  \A c \in CallIds :
    (calls[c].active /\ calls[c].st["checkDomain"] \in {"done", "fail"}) =>
      /\ calls[c].domainAns # "unasked" <=> calls[c].opts.checkDomain
      /\ calls[c].domainAns = "unasked" =>
           IF CallSig(c).domain # Null
           THEN /\ calls[c].st["checkDomain"] = "fail"
                /\ calls[c].err["checkDomain"] = "DomainInvalid"
           ELSE calls[c].st["checkDomain"] = "done"
      /\ calls[c].domainAns = "false" =>
           /\ calls[c].st["checkDomain"] = "fail"
           /\ calls[c].err["checkDomain"] = "DomainInvalid"
      /\ calls[c].domainAns = "err" =>
           /\ calls[c].st["checkDomain"] = "fail"
           /\ calls[c].err["checkDomain"] = "HookError"
      /\ calls[c].domainAns = "true" => calls[c].st["checkDomain"] = "done"
      /\ calls[c].st["checkDomain"] = "fail" => calls[c].cb \notin {"none", "ok"}

C8_Witness ==
  \E c \in CallIds :
    /\ calls[c].opts.checkDomain
    /\ calls[c].domainAns = "err"
    /\ calls[c].err["checkDomain"] = "HookError"
    /\ calls[c].cb = "HookError"

\* C9: when the document holds no signed node, or more than one, verify fails
\* in its frame task with the no-signature error, no other task of the call is
\* ever started (no hook asked, no key fetched), and it never reports success.
NoSignatureErrors == {"NoSignedData", "MoreThanOneSignedGraph"}

C9_NoSignatureFailsFirst ==
  \A c \in CallIds :
    ( /\ calls[c].active
      /\ calls[c].st["frame"] # "idle"
      /\ Len(SignedNodes(doc)) # 1 )
    => /\ calls[c].st["frame"] = "fail"
       /\ calls[c].err["frame"] \in NoSignatureErrors
       /\ calls[c].cb = calls[c].err["frame"]
       /\ \A t \in AllTasks \ {"frame"} : calls[c].st[t] = "idle"
       /\ calls[c].nonceAns = "unasked" /\ calls[c].domainAns = "unasked"
       /\ calls[c].trustAns = "unasked" /\ calls[c].fetched = NoKey
       /\ calls[c].norm = NoNorm

C9_Witness ==
  \E c \in CallIds :
    /\ doc.sig # NoSig /\ doc.others = 1
    /\ calls[c].cb = "MoreThanOneSignedGraph"
    /\ Quiescent(c)

\* C10: no step of verify changes the caller's document; the signature is
\* removed from the framed copy only.
C10_VerifyLeavesDocument == [][calls' # calls => doc' = doc]_vars

C10_Witness ==
  \E c \in CallIds :
    /\ calls[c].cb = "ok"
    /\ calls[c].frame.sig = NoSig
    /\ doc.sig # NoSig /\ doc.sig = calls[c].norm.signature

\* C11: every verify call eventually invokes its callback, with success or an
\* error, when every task that is ready runs and every hook and fetch answers.
C11_VerifyEventuallyCallsBack ==
  calls[1].active ~> calls[1].cb # "none"

C13_GetPublicKeyOutcomes ==
  \A c \in CallIds :
    calls[c].fetched # NoKey =>
      LET key == calls[c].fetched
          st == calls[c].st["getPublicKey"]
          e == calls[c].err["getPublicKey"]
      IN  /\ key.fetch = "err" => st = "fail" /\ e = "NetworkError"
          /\ key.fetch = "ok" /\ ~key.hasPem => st = "fail" /\ e = "UnknownKeyFormat"
          /\ key.fetch = "ok" /\ key.hasPem => st = "done" /\ calls[c].key = key

\* C18: when canonicalization of the document yields zero bytes sign fails
\* with the empty-data error, and after any failed sign the document is
\* exactly what was passed in, with no signature block.
C18_EmptyFailsAndLeavesDocument ==
  sgn.called =>
    /\ (sgn.normalized # NotRun /\ ContentQuads(sgn.before.content) = <<>>)
         => signErr = "EmptyData"
    /\ signErr # "none" => doc = sgn.before /\ doc.sig = NoSig

C18_Witness ==
  /\ sgn.called
  /\ sgn.options.key = SignerKey
  /\ doc.content = "E"
  /\ signErr = "EmptyData"
  /\ doc.sig = NoSig

\* C19 as stated: after a successful sign the document carries a block with
\* type, creator = the key id given, created = the timestamp signed and the
\* signature value, with a nonce field exactly when a nonce option was given
\* and a domain field exactly when a domain option was given.
C19_SignatureBlockAsClaimed ==
  (sgn.called /\ signErr = "none") =>
    /\ doc.sig.type = "GraphSignature2012"
    /\ sgn.options.keyId # Undefined => doc.sig.creator = sgn.options.keyId
    /\ doc.sig.nonce # Null <=> sgn.options.nonce # Undefined
    /\ doc.sig.domain # Null <=> sgn.options.domain # Undefined

\* C19 as the code has it: the block has a nonce field exactly when a
\* non-empty nonce was given, and a domain field exactly when the revision has
\* the domain option ("p4") and a non-empty domain was given; what the block
\* declares is what entered the signing input, and nothing else of the
\* document changes.
C19_SignatureBlock ==
  (sgn.called /\ signErr = "none") =>
    LET sig == doc.sig
        options == sgn.options
    IN  /\ sig.type = "GraphSignature2012"
        /\ options.keyId # Undefined => sig.creator = options.keyId
        /\ sig.created = IF options.date = Undefined THEN w3cDate(Date_now)
                         ELSE options.date
        /\ sig.nonce = IF options.nonce \in {Undefined, ""} THEN Null
                       ELSE options.nonce
        /\ sig.domain = IF rev = "p4" /\ options.domain \notin {Undefined, ""}
                        THEN options.domain ELSE Null
        /\ sig.signatureValue.key = options.key
        /\ sig.signatureValue.input =
             (IF sig.nonce # Null THEN <<sig.nonce>> ELSE <<>>)
               \o <<sig.created>> \o ContentQuads(sgn.before.content)
               \o (IF sig.domain # Null THEN <<"@", sig.domain>> ELSE <<>>)
        /\ doc = [sgn.before EXCEPT !.sig = sig]

C19_Witness ==
  /\ sgn.called /\ signErr = "none" /\ rev = "p4"
  /\ sgn.options.nonce = "n1" /\ doc.sig.nonce = "n1"
  /\ sgn.options.domain = "d1" /\ doc.sig.domain = "d1"
  /\ sgn.options.date = "T0800" /\ doc.sig.created = "T0800"

\* C17: two objects with the same canonical form get the same identifier; the
\* identifier is "urn:sha256:" followed by the digest of the canonical form
\* in lowercase hexadecimal, two digits a byte; objects whose canonical forms
\* have different digests get different identifiers.
LowerHexValue(d) ==
  CHOOSE v \in 0..15 : HexDigits[v + 1] = d

HashIdWellFormed(obj, id) ==
  LET digest == SHA256(ContentQuads(obj.content) \o SigQuads(obj.sig))
  IN  /\ Len(id) = 1 + 2 * Len(digest)
      /\ id[1] = "urn:sha256:"
      /\ \A i \in 1..Len(digest) :
           /\ id[2 * i] \in {HexDigits[k] : k \in 1..16}
           /\ id[2 * i + 1] \in {HexDigits[k] : k \in 1..16}
           /\ 16 * LowerHexValue(id[2 * i]) + LowerHexValue(id[2 * i + 1])
                = digest[i]

C14_UnknownAlgorithmFailsAtOnce ==
  cipher.enc.cipherAlgorithm # "rsa-sha256-aes-128-cbc" =>
    /\ cipher.st \in {"none", "ready", "done"}
    /\ cipher.st = "done" =>
         /\ cipher.err = "UnknownAlgorithm"
         /\ cipher.ops = <<>>
         /\ cipher.msg = NoDoc
         /\ ~calls[1].active

C14_Witness ==
  /\ cipher.st = "done"
  /\ cipher.enc.cipherAlgorithm = "unknown"
  /\ cipher.enc.cipherKey.b64.to = PublicOf(cipher.key)
  /\ cipher.err = "UnknownAlgorithm"

\* The message is as the authority made it, for the key decrypt was given,
\* from the JSON text of a document.
RoundTrip ==
  /\ cipher.st = "done"
  /\ ~cipher.tampered
  /\ cipher.json
  /\ cipher.enc.cipherKey.b64.to = PublicOf(cipher.key)

C16_DecryptFailureIsGeneric ==
  \A a \in seen, b \in seen : a.err = b.err /\ a.detail = b.detail

\* C20: a registration flow persists the key id, owner and funding account of
\* the response only after the response was decrypted, then verified, and
\* found to declare the IdentityPreferences type and not the Error type.
C20_PersistOnlyAfterChecks ==
  reg.persisted # NoPersist =>
    /\ cipher.st = "done" /\ cipher.err = "none"
    /\ reg.verified
    /\ "IdentityPreferences" \in TypesOf(cipher.msg.content)
    /\ "Error" \notin TypesOf(cipher.msg.content)

\* C21: when registerVendor completes without error, the second argument of
\* its callback is the decoded preferences document (the decrypted, verified
\* IdentityPreferences message), never null or undefined.
C21_RegisterVendorReturnsPrefs ==
  (reg.flow = "registerVendor" /\ reg.st = "done" /\ reg.err = "none") =>
    /\ reg.prefs = cipher.msg
    /\ reg.prefs \notin {NullDoc, UndefinedDoc}
    /\ "IdentityPreferences" \in TypesOf(reg.prefs.content)

\* C22: the registration step generates a new key pair exactly when no key
\* pair exists yet or overwriting was requested; when a pair exists and
\* overwrite is not set, the existing public key is the one placed in the
\* registration URL and the stored pair is not replaced.
C22_KeyPairGeneratedWhenNeeded ==
  regurl.task["getPublicKey"] = "done" =>
    /\ regurl.gen <=> (regurl.had = NoPair \/ regurl.overwrite)
    /\ (regurl.had # NoPair /\ ~regurl.overwrite) =>
         /\ regurl.stored = regurl.had
         /\ regurl.cb = "ok" => regurl.url.publicKey = PublicPem(regurl.had)

C24_AmbiguousListingStopsPurchase ==
  (pur.st \notin {"none", "frame"} /\ pur.cb # "FrameError"
     /\ Cardinality(FrameListings(pur.graph)) # 1) =>
    /\ pur.st = "done" /\ pur.cb = "AmbiguousListing"
    /\ pur.hashed = 0 /\ pur.signed = 0 /\ pur.sent = <<>>

C24_Witness ==
  /\ pur.cb = "AmbiguousListing"
  /\ Cardinality(FrameListings(pur.graph)) = 2

\* C25: the request purchase sends to the transaction service is a POST whose
\* body is the signed purchase request: listingHash is the hash of the single
\* framed Listing, listing is that Listing's id, the signature is the one sign
\* produced, and the POST starts only after hashing and signing succeeded.
C25_PostCarriesSignedRequest ==
  \A i \in 1..Len(pur.sent) :
    LET listing == CHOOSE n \in FrameListings(pur.graph) : TRUE
        hash == HashOutcome(AsObject(listing.content))
        signed == SignRequest(rev, PurchaseRequest(listing, hash.id, pur.opts),
                              pur.opts)
    IN  /\ Cardinality(FrameListings(pur.graph)) = 1
        /\ hash.err = "none" /\ signed.err = "none"
        /\ pur.hashed = 1 /\ pur.signed = 1
        /\ pur.sent[i].method = "POST"
        /\ pur.sent[i].body = signed.request
        /\ pur.sent[i].body.listingHash = hash.id
        /\ pur.sent[i].body.listing = listing.id
        /\ pur.sent[i].body.signature # NoSig

\* C26: no step retries: one call to purchase sends at most one request to
\* the transaction service, and one call to getJsonLd or getPublicKey performs
\* at most one network fetch, whatever the outcome.
C26_NoRetry ==
  /\ Len(pur.sent) <= 1
  /\ web.call.fetches <= 1

C26_Witness ==
  /\ Len(pur.sent) = 1 /\ pur.cb = "err"
  /\ web.call.kind = "getPublicKey" /\ web.call.fetchErr /\ web.call.fetches = 1

\* The outcome of getJsonLd with caching disabled, when the fetch succeeds.
Uncached(url) ==
  IF Remote(url) = NoResult THEN [cb |-> "NoJsonLd", result |-> NoResult]
  ELSE [cb |-> "ok", result |-> Remote(url)]

ValidReceipt(message) ==
  /\ "Receipt" \in TypesOf(message.content)
  /\ "Error" \notin TypesOf(message.content)
  /\ ContractOf(message.content).typeof = "object"
  /\ {"assetAcquirer", "asset", "license"} \subseteq ContractOf(message.content).keys

C27_ReceiptIffValid ==
  rcpt.decoded =>
    IF ValidReceipt(cipher.msg)
    THEN rcpt.st = "done" /\ rcpt.cb = "ok" /\ rcpt.receipt = cipher.msg
    ELSE rcpt.st = "done" /\ rcpt.cb = "InvalidReceipt"

\* C29: the bytes verify feeds to the RSA verifier are built as those sign fed
\* to the RSA signer, for the four combinations of nonce and domain present or
\* absent: nonce (if present), created, the canonical form, then "@" and the
\* domain (if present).
C29_VerifyInputAsSigned ==
  \A c \in CallIds :
    (calls[c].st["normalize"] = "done" /\ pristine) =>
      LET signature == calls[c].norm.signature
          input == VerifyInput(rev, signature, calls[c].norm.data)
      IN  /\ input = signature.signatureValue.input
          /\ input = (IF signature.nonce # Null THEN <<signature.nonce>> ELSE <<>>)
                      \o <<signature.created>> \o calls[c].norm.data
                      \o (IF signature.domain # Null
                          THEN <<"@", signature.domain>> ELSE <<>>)

\* The place of a failure in the order of the steps: signature extraction,
\* nonce, domain, timestamp, key resolution, revocation, key-owner trust,
\* signature.
StepRank(t, err) ==
  CASE err = "KeyRevoked" -> 6
    [] t = "frame" -> 1
    [] t = "checkNonce" -> 2
    [] t = "checkDomain" -> 3
    [] t = "checkDate" -> 4
    [] t = "getPublicKey" -> 5
    [] t \in {"checkKey", "verifyPublicKeyOwner"} -> 7
    [] OTHER -> 8

\* C30: when a signed document fails more than one verification step, verify
\* reports the failure of the earliest step in the order: signature
\* extraction, nonce, domain, timestamp, key resolution, revocation, key-owner
\* trust, signature.
C30_EarliestFailureReported ==
  \A c \in CallIds :
    calls[c].cb \notin {"none", "ok"} =>
      \E t0 \in Tasks(rev) :
        /\ calls[c].err[t0] = calls[c].cb
        /\ \A t \in Tasks(rev) :
             calls[c].err[t] # "none" =>
               StepRank(t0, calls[c].err[t0]) <= StepRank(t, calls[c].err[t])

\* The checks a document has to pass before it is canonicalized for
\* verification: nonce, domain (where the revision has the step), timestamp
\* and key trust.
ChecksBeforeNormalize(r) ==
  Tasks(r) \cap {"checkNonce", "checkDomain", "checkDate", "checkKey",
                 "verifyPublicKeyOwner"}

\* C31: inside verify the declared step dependencies are respected in every
\* interleaving: the key trust check has started only if key resolution
\* succeeded, canonicalization for verification has started only if the nonce,
\* domain, timestamp and key checks have all succeeded, and the RSA
\* verification has started only if that canonicalization finished.
C31_StepsStartAfterTheirChecks ==
  \A c \in CallIds :
    calls[c].active =>
      /\ \A t \in Tasks(rev) \cap {"checkKey", "verifyPublicKeyOwner"} :
           calls[c].st[t] # "idle" => calls[c].st["getPublicKey"] = "done"
      /\ calls[c].st["normalize"] # "idle" =>
           \A t \in ChecksBeforeNormalize(rev) : calls[c].st[t] = "done"
      /\ calls[c].st["verifySignature"] # "idle" =>
           calls[c].st["normalize"] = "done"

\* The tasks of verify that invoke a caller's hook or fetch over the network
\* when they are started and left running: the nonce and domain hooks, the
\* fetch of the signer's key, and the trust check of that key.
OutwardTasks == {"checkNonce", "checkDomain", "getPublicKey", "checkKey",
                 "verifyPublicKeyOwner"}

\* C32: once a verify call has reported a failure to its callback, that call
\* starts no further hook invocation and no further network fetch: a step not
\* yet started when the failure was reported never runs.
C32_NothingStartsAfterFailure ==
  [][\A c \in CallIds :
       (calls[c].active /\ calls[c].cb \notin {"none", "ok"}) =>
         \A t \in OutwardTasks :
           ~(calls[c].st[t] = "idle" /\ calls'[c].st[t] = "run")]_vars


\* C33: every registration or purchase URL the client produces carries a
\* response-nonce that the nonce store (createNonce) created for that call,
\* so that it can be checked and consumed later, and no two URLs produced by
\* different calls share a nonce.
C33_UrlNoncesFreshFromStore ==
  /\ issued.urls \subseteq issued.fresh
  /\ ~issued.dup


\* C34: sign never computes a signature over a canonical form that includes
\* an existing signature block; after any sequence of sign calls on the same
\* document the document carries one signature block, and that block is over
\* the document without its signature, which is what verify checks it against.
C34_SignNeverCoversSignature ==
  (sgn.called /\ signErr = "none") =>
    /\ SignatureQuads(sgn.normalized) = 0
    /\ doc.sig.signatureValue.input =
         SignInput(rev, doc.sig.nonce, doc.sig.created,
                   Normalize([doc EXCEPT !.sig = NoSig]), doc.sig.domain)


\* C35: an operation that decrypts and verifies in one call hands the
\* decrypted document to the caller's callback only when verification
\* succeeded; when it reports an error the callback receives no document.
C35_DocumentOnlyWhenVerified ==
  (cipher.st = "done" /\ cipher.err # "none") => cipher.handed = UndefinedDoc


\* C36: postJsonLd invokes its callback exactly once per call, also when the
\* code run by that callback throws or when the transport reports an error.
C36_PostCallsBackOnce ==
  post.st = "done" => Len(post.invocations) = 1


\* C37: the purchase tool sends a purchase request only when the confirmation
\* step ended with yes, sends it at most once per invocation, and with --yes
\* the confirmation step completes exactly once, with true, without prompting
\* the user.
C37_PurchaseOnlyOnYes ==
  /\ buy.sent <= 1
  /\ buy.sent = 1 => (buy.confirms # <<>> /\ buy.confirms[1] = "true")
  /\ (buy.yes /\ buy.st = "run" /\ buy.cb # "err") =>
       (buy.confirms = <<"true">> /\ buy.prompted = 0)


\* C38: without --cross-authority the url tool sends a request only when the
\* host:port of the target URL equals the host:port of the configured public
\* key id; for any other target it fails with the cross-authority error and
\* sends nothing.
C38_OnlySameAuthority ==
  ~urlt.cross =>
    /\ \A i \in 1..Len(urlt.sent) :
         /\ urlt.sent[i] = urlt.target
         /\ LowerCase(urlt.target.hostname) = LowerCase(ConfiguredKeyId.hostname)
         /\ urlt.target.port = ConfiguredKeyId.port
    /\ (urlt.st = "done" /\ urlt.cb # "err"
          /\ ~(/\ LowerCase(urlt.target.hostname) = LowerCase(ConfiguredKeyId.hostname)
               /\ urlt.target.port = ConfiguredKeyId.port)) =>
         /\ urlt.cb = "CrossAuthority"
         /\ urlt.sent = <<>>
         /\ ~urlt.fetched

C38_Witness ==
  /\ ~urlt.cross
  /\ urlt.target.hostname = "A.example"
  /\ urlt.data = "@file"
  /\ Len(urlt.sent) = 1
  /\ urlt.cb = "ok"


\* A step of the registration has failed: it called back with an error, threw,
\* or gave up without calling back.
KeyRegFailed(k) ==
  \E t \in KeyRegTasks(k.flow) : k.task[t] \in {"fail", "threw", "hung"}

C40_ReportOnlyAfterWrite ==
  keyreg.reported => keyreg.file = "registered"


====
